---------------------------- MODULE Spec2Model ----------------------------
(***************************************************************************)
(* A model of the UBL kernel: the expression and gate evaluator, the proof *)
(* engine (engine.rs), template interpolation (interp.rs), the ledger and  *)
(* its transaction protocol (ledger.rs) and the execute / register request *)
(* handlers (api.rs).                                                      *)
(*                                                                         *)
(* Representation.  A Rust String is a sequence of one-character strings.  *)
(* A serde_json Value is a record tagged by t: null, bool, num (with f     *)
(* telling a float from an integer, as serde_json's Number does), str,     *)
(* arr, obj (a function from keys to values).  An Option is the record     *)
(* None or the value.  A SHA-256 digest is modelled as collision free:     *)
(* the digest of a text is a record holding the canonical form hashed.     *)
(***************************************************************************)
EXTENDS Integers, Sequences, FiniteSets, TLC

\* A value computed once and named in what follows, as a let binding of the
\* code: With(v, LAMBDA x : e) is e with x standing for the value v.
With(v, F(_)) == F(v)

\* ------------------------------------------------------------------------
\* Strings
\* ------------------------------------------------------------------------
\* Position of the first occurrence of pat in s at or after position from,
\* 0 when there is none (str::find).
RECURSIVE FindFrom(_, _, _)
FindFrom(s, pat, from) ==
  IF from + Len(pat) - 1 > Len(s) THEN 0
  ELSE IF SubSeq(s, from, from + Len(pat) - 1) = pat THEN from
  ELSE FindFrom(s, pat, from + 1)

Find(s, pat) == FindFrom(s, pat, 1)

\* str::replace: every non-overlapping occurrence, left to right.
RECURSIVE Replace(_, _, _)
Replace(s, pat, rep) ==
  LET i == Find(s, pat) IN
  IF i = 0 THEN s
  ELSE SubSeq(s, 1, i - 1) \o rep \o Replace(SubSeq(s, i + Len(pat), Len(s)), pat, rep)

\* str::trim, on the one whitespace character of the model.
RECURSIVE TrimStart(_)
TrimStart(s) == IF s # <<>> /\ Head(s) = " " THEN TrimStart(Tail(s)) ELSE s

RECURSIVE TrimEnd(_)
TrimEnd(s) ==
  IF s # <<>> /\ s[Len(s)] = " " THEN TrimEnd(SubSeq(s, 1, Len(s) - 1)) ELSE s

Trim(s) == TrimEnd(TrimStart(s))

\* s.split('.') : the pieces between the dots, empty pieces included.
RECURSIVE SplitDot(_)
SplitDot(s) ==
  LET i == Find(s, <<".">>) IN
  IF i = 0 THEN <<s>>
  ELSE <<SubSeq(s, 1, i - 1)>> \o SplitDot(SubSeq(s, i + 1, Len(s)))

RECURSIVE NonEmpty(_)
NonEmpty(parts) ==
  IF parts = <<>> THEN <<>>
  ELSE IF Head(parts) = <<>> THEN NonEmpty(Tail(parts))
  ELSE <<Head(parts)>> \o NonEmpty(Tail(parts))

\* ledger.rs split_path: split on '.', drop the empty pieces.
split_path(path) == NonEmpty(SplitDot(path))

Digits == <<"0", "1", "2", "3", "4", "5", "6", "7", "8", "9">>

\* Decimal text of a natural number.
RECURSIVE NatText(_)
NatText(n) == IF n < 10 THEN <<Digits[n + 1]>> ELSE NatText(n \div 10) \o <<Digits[(n % 10) + 1]>>

IntText(n) == IF n < 0 THEN <<"-">> \o NatText(-n) ELSE NatText(n)

\* ------------------------------------------------------------------------
\* serde_json values
\* ------------------------------------------------------------------------
None == [t |-> "none"]
JNull == [t |-> "null"]
JBool(b) == [t |-> "bool", v |-> b]
JInt(n) == [t |-> "num", v |-> n, f |-> FALSE]
JFloat(n) == [t |-> "num", v |-> n, f |-> TRUE]
JStr(s) == [t |-> "str", v |-> s]
JArr(a) == [t |-> "arr", v |-> a]
JObj(m) == [t |-> "obj", v |-> m]
EmptyMap == [k \in {} |-> JNull]
EmptyObj == JObj(EmptyMap)

IsNone(o) == o.t = "none"
IsObj(x) == x.t = "obj"
IsStr(x) == x.t = "str"
IsArr(x) == x.t = "arr"
IsNum(x) == x.t = "num"
IsBoolV(x) == x.t = "bool"

\* Value::get(&str): the member of an object, None for a missing key and for
\* every value that is not an object.
Get(x, k) == IF IsObj(x) /\ k \in DOMAIN x.v THEN x.v[k] ELSE None

\* Map::insert
Insert(x, k, val) == JObj([kk \in (DOMAIN x.v) \cup {k} |-> IF kk = k THEN val ELSE x.v[kk]])

\* Map::remove
Remove(x, k) == JObj([kk \in (DOMAIN x.v) \ {k} |-> x.v[kk]])

\* v.as_f64().unwrap_or(0.0)
NumOr0(x) == IF IsNum(x) THEN x.v ELSE 0

\* engine.rs resolve_path / ledger.rs get_path: walk the keys, None as soon
\* as one is missing.
RECURSIVE resolve_path(_, _)
resolve_path(root, path) ==
  IF path = <<>> THEN root
  ELSE LET nxt == Get(root, Head(path)) IN
       IF IsNone(nxt) THEN None ELSE resolve_path(nxt, Tail(path))

get_path(root, path) == resolve_path(root, split_path(path))

\* Results of the fallible helpers.
Ok(x) == [ok |-> TRUE, val |-> x]
Err(kind, msg) == [ok |-> FALSE, kind |-> kind, msg |-> msg]

\* The walk with a fresh object at every intermediate segment, whatever
\* was there.
RECURSIVE SetInFresh(_, _, _)
SetInFresh(cur, parts, val) ==
  IF Len(parts) = 1 THEN Insert(cur, Head(parts), val)
  ELSE Insert(cur, Head(parts), SetInFresh(EmptyObj, Tail(parts), val))

\* The walk of set_path below the root: cur is an object here.
RECURSIVE SetIn(_, _, _)
SetIn(cur, parts, val) ==
  IF Len(parts) = 1 THEN Insert(cur, Head(parts), val)
  ELSE LET p == Head(parts)
           child == Get(cur, p)
           obj == IF IsNone(child) \/ ~IsObj(child) THEN EmptyObj ELSE child
       IN Insert(cur, p, SetIn(obj, Tail(parts), val))

\* ledger.rs set_path.  Every value below the root that is not an object
\* is replaced by a fresh object on the way, so only the root can fail.
set_path(root, path, val) ==
  With(split_path(path), LAMBDA parts :
    IF parts = <<>> THEN Err("State", "empty_path")
    ELSE IF ~IsObj(root) THEN Err("State", "set_path_non_object")
    ELSE Ok(SetIn(root, parts, val)))

\* ledger.rs ensure_obj_path, as apply_transaction calls it: one part.
ensure_obj_path(root, p) ==
  IF IsNone(Get(root, p)) /\ ~IsObj(root) THEN Err("State", "ensure_obj_path_non_object")
  ELSE IF IsNone(Get(root, p)) THEN Ok(Insert(root, p, EmptyObj))
  ELSE IF ~IsObj(Get(root, p)) THEN Ok(Insert(root, p, EmptyObj))
  ELSE Ok(root)

\* The walk of delete_path: a missing part is a no-op, the leaf is removed
\* when its parent is an object.
RECURSIVE DeleteIn(_, _)
DeleteIn(cur, parts) ==
  IF Len(parts) = 1 THEN (IF IsObj(cur) THEN Remove(cur, Head(parts)) ELSE cur)
  ELSE LET child == Get(cur, Head(parts)) IN
       IF IsNone(child) THEN cur
       ELSE Insert(cur, Head(parts), DeleteIn(child, Tail(parts)))

\* ledger.rs delete_path: never fails.
delete_path(root, path) ==
  With(split_path(path), LAMBDA parts :
    IF parts = <<>> THEN Ok(root) ELSE Ok(DeleteIn(root, parts)))

\* ------------------------------------------------------------------------
\* Time.  An instant is a number of ticks; TicksPerSecond of them make a
\* second, so an instant may carry a sub-second part.  The RFC 3339 text
\* of the model is "T" seconds [ "." fraction ] "Z".
\* ------------------------------------------------------------------------
TicksPerSecond == 2

ExecMeta(tx_id, execution_time) == [tx_id |-> tx_id, execution_time |-> execution_time]

\* A time text that is the transaction id.
now_from_tx_id(meta) == meta.tx_id

\* engine.rs now_rfc3339: SecondsFormat::Secs drops the sub-second part.
now_rfc3339(meta) == <<"T">> \o NatText(meta.execution_time \div TicksPerSecond) \o <<"Z">>

\* The text of an instant with its sub-second part.
FullText(ticks) ==
  <<"T">> \o NatText(ticks \div TicksPerSecond)
    \o (IF ticks % TicksPerSecond = 0 THEN <<>> ELSE <<".", "5">>) \o <<"Z">>

IsDigit(c) == \E i \in 1..10 : Digits[i] = c
DigitVal(c) == CHOOSE i \in 0..9 : Digits[i + 1] = c

RECURSIVE ParseNat(_, _)
ParseNat(s, acc) == IF s = <<>> THEN acc ELSE ParseNat(Tail(s), acc * 10 + DigitVal(Head(s)))

SomeTime(ticks) == [t |-> "time", v |-> ticks]

\* engine.rs parse_ts: DateTime::parse_from_rfc3339, None for any other text.
parse_ts(s) ==
  IF Len(s) < 3 \/ s[1] # "T" \/ s[Len(s)] # "Z" THEN None
  ELSE LET body == SubSeq(s, 2, Len(s) - 1)
           dot == Find(body, <<".">>)
           whole == IF dot = 0 THEN body ELSE SubSeq(body, 1, dot - 1)
           frac == IF dot = 0 THEN <<>> ELSE SubSeq(body, dot + 1, Len(body))
       IN IF whole = <<>> \/ (\E i \in 1..Len(whole) : ~IsDigit(whole[i])) THEN None
          ELSE IF dot = 0 \/ frac = <<"0">> THEN SomeTime(ParseNat(whole, 0) * TicksPerSecond)
          ELSE IF frac = <<"5">> THEN SomeTime(ParseNat(whole, 0) * TicksPerSecond + 1)
          ELSE None

\* chrono Duration::num_seconds: whole seconds, truncated toward zero.
num_seconds(d) == IF d >= 0 THEN d \div TicksPerSecond ELSE -((-d) \div TicksPerSecond)

\* ------------------------------------------------------------------------
\* Keys and signatures.  A signature names the key that made it and the
\* message signed; it verifies under the matching public key only.
\* ------------------------------------------------------------------------
Key(id) == [t |-> "key", id |-> id]
KeyMaterial(signing, verifying) == [signing |-> signing, verifying |-> verifying]
NoKeys == KeyMaterial(None, None)

Signature(id, msg) == [t |-> "sig", by |-> id, msg |-> msg]

\* engine.rs KeyMaterial::sign_b64
sign_b64(keys, msg) == IF IsNone(keys.signing) THEN None ELSE Signature(keys.signing.id, msg)

\* engine.rs KeyMaterial::verify_sig_b64
verify_sig_b64(keys, msg, sig) ==
  IF IsNone(keys.verifying) THEN FALSE
  ELSE sig.by = keys.verifying.id /\ sig.msg = msg

\* ------------------------------------------------------------------------
\* Canonical form (JCS) and SHA-256
\* ------------------------------------------------------------------------
\* The canonical text of a value: a number is written in its shortest form,
\* so the integer 1 and the float 1.0 have the same text; object keys are
\* sorted (an object of the model has no key order to begin with).
RECURSIVE Canon(_)
Canon(x) ==
  CASE x.t = "num" -> [t |-> "num", v |-> x.v, f |-> FALSE]
    [] x.t = "arr" -> JArr([i \in DOMAIN x.v |-> Canon(x.v[i])])
    [] x.t = "obj" -> JObj([k \in DOMAIN x.v |-> Canon(x.v[k])])
    [] x.t = "none" -> JNull
    [] OTHER -> x

EmptyHash == [alg |-> "empty"]

\* engine.rs jcs_hash, on the canonical form of what is hashed.
jcs_hash(canon) == [alg |-> "sha256", pre |-> canon]

\* ------------------------------------------------------------------------
\* Expressions (types.rs Expr) and their evaluation
\* ------------------------------------------------------------------------
Literal(value) == [type |-> "literal", value |-> value]
Path(path, fallback) == [type |-> "path", path |-> path, fallback |-> fallback]
Compare(op, left, right) == [type |-> "compare", op |-> op, left |-> left, right |-> right]
Logic(op, args) == [type |-> "logic", op |-> op, args |-> args]
Call(function, args) == [type |-> "call", function |-> function, args |-> args]

\* ledger.rs lit
lit(value) == Literal(value)

\* engine.rs compare_strict
compare_strict(op, l, r) ==
  CASE op = "==" -> l = r
    [] op = "!=" -> l # r
    [] op = "exists" -> l.t # "null"
    [] op = "in" ->
         IF IsArr(r) THEN \E i \in DOMAIN r.v : r.v[i] = l
         ELSE IF IsStr(l) /\ IsStr(r) THEN Find(r.v, l.v) # 0
         ELSE FALSE
    [] op \in {">", "<", ">=", "<="} ->
         IF IsNum(l) /\ IsNum(r)
         THEN CASE op = ">" -> l.v > r.v
                [] op = "<" -> l.v < r.v
                [] op = ">=" -> l.v >= r.v
                [] op = "<=" -> l.v <= r.v
         ELSE FALSE

\* vals.get(i), Null standing for a missing argument where the code reads
\* it through and_then / unwrap_or.
Arg(vals, i) == IF i <= Len(vals) THEN vals[i] ELSE JNull
StrArg(vals, i) == IF IsStr(Arg(vals, i)) THEN Arg(vals, i).v ELSE <<>>

\* The built-in functions of eval_expr the model's chips and programs call;
\* a name outside the code's table evaluates to null.
call_builtin(function, vals, meta) ==
  CASE function = "now" -> JStr(now_rfc3339(meta))
    [] function = "before" ->
         LET a == parse_ts(StrArg(vals, 1))
             b == parse_ts(StrArg(vals, 2))
         IN JBool(~IsNone(a) /\ ~IsNone(b) /\ a.v < b.v)
    [] function = "after" ->
         LET a == parse_ts(StrArg(vals, 1))
             b == parse_ts(StrArg(vals, 2))
         IN JBool(~IsNone(a) /\ ~IsNone(b) /\ a.v > b.v)
    [] function = "age" ->
         LET a == parse_ts(StrArg(vals, 1))
         IN IF IsNone(a) THEN JInt(0) ELSE JInt(num_seconds(meta.execution_time - a.v))
    [] function = "starts_with" ->
         LET str == StrArg(vals, 1)
             pre == StrArg(vals, 2)
         IN JBool(Len(pre) <= Len(str) /\ SubSeq(str, 1, Len(pre)) = pre)
    [] function = "ends_with" ->
         LET str == StrArg(vals, 1)
             suf == StrArg(vals, 2)
         IN JBool(Len(suf) <= Len(str) /\ SubSeq(str, Len(str) - Len(suf) + 1, Len(str)) = suf)
    [] function \in {"length", "len"} ->
         IF IsArr(Arg(vals, 1)) \/ IsStr(Arg(vals, 1)) THEN JInt(Len(Arg(vals, 1).v)) ELSE JInt(0)
    [] function = "empty" ->
         JBool(IF IsArr(Arg(vals, 1)) THEN Arg(vals, 1).v = <<>> ELSE TRUE)
    [] function = "contains" ->
         IF IsStr(Arg(vals, 1)) /\ IsStr(Arg(vals, 2))
         THEN JBool(Find(Arg(vals, 1).v, Arg(vals, 2).v) # 0)
         ELSE IF IsArr(Arg(vals, 1))
         THEN JBool(\E i \in DOMAIN Arg(vals, 1).v : Arg(vals, 1).v[i] = Arg(vals, 2))
         ELSE JBool(FALSE)
    [] function = "abs" ->
         LET n == NumOr0(Arg(vals, 1)) IN JFloat(IF n < 0 THEN -n ELSE n)
    [] function \in {"floor", "ceil"} -> JFloat(NumOr0(Arg(vals, 1)))
    [] function = "min" ->
         LET a == NumOr0(Arg(vals, 1))
             b == NumOr0(Arg(vals, 2))
         IN JFloat(IF a < b THEN a ELSE b)
    [] function = "max" ->
         LET a == NumOr0(Arg(vals, 1))
             b == NumOr0(Arg(vals, 2))
         IN JFloat(IF a > b THEN a ELSE b)
    [] function = "add" -> JFloat(NumOr0(Arg(vals, 1)) + NumOr0(Arg(vals, 2)))
    [] function = "sub" -> JFloat(NumOr0(Arg(vals, 1)) - NumOr0(Arg(vals, 2)))
    [] function = "sha256" -> JStr(<<"#">> \o StrArg(vals, 1))
    [] OTHER -> JNull

\* Value::as_bool().unwrap_or(false)
BoolOrFalse(x) == IsBoolV(x) /\ x.v

\* engine.rs eval_expr
RECURSIVE eval_expr(_, _, _)
eval_expr(expr, ctx, meta) ==
  CASE expr.type = "literal" -> expr.value
    [] expr.type = "path" ->
         LET r == resolve_path(ctx, expr.path) IN
         IF ~IsNone(r) THEN r
         ELSE IF ~IsNone(expr.fallback) THEN expr.fallback
         ELSE JNull
    [] expr.type = "compare" ->
         JBool(compare_strict(expr.op, eval_expr(expr.left, ctx, meta),
                              eval_expr(expr.right, ctx, meta)))
    [] expr.type = "logic" ->
         LET vals == [i \in DOMAIN expr.args |-> BoolOrFalse(eval_expr(expr.args[i], ctx, meta))]
         IN JBool(CASE expr.op = "and" -> \A i \in DOMAIN vals : vals[i]
                    [] expr.op = "or" -> \E i \in DOMAIN vals : vals[i]
                    [] expr.op = "not" -> ~(IF vals = <<>> THEN FALSE ELSE vals[1]))
    [] expr.type = "call" ->
         call_builtin(expr.function,
                      [i \in DOMAIN expr.args |-> eval_expr(expr.args[i], ctx, meta)], meta)

\* ------------------------------------------------------------------------
\* Chips and proofs (types.rs Chip, Gate, Composition, Proof, GateResult)
\* ------------------------------------------------------------------------
Gate(id, expr) == [id |-> id, description |-> <<>>, expr |-> expr]
Shorthand(s) == [form |-> "shorthand", s |-> s]
Full(kind, weights, threshold) ==
  [form |-> "full", kind |-> kind, weights |-> weights, threshold |-> threshold]
Chip(name, gates, composition) ==
  [name |-> name, description |-> <<>>, gates |-> gates, composition |-> composition,
   hash |-> EmptyHash]

RECURSIVE CanonExpr(_)
CanonExpr(e) ==
  CASE e.type = "literal" -> [e EXCEPT !.value = Canon(@)]
    [] e.type = "path" -> [e EXCEPT !.fallback = Canon(@)]
    [] e.type = "compare" -> [e EXCEPT !.left = CanonExpr(@), !.right = CanonExpr(@)]
    [] OTHER -> [e EXCEPT !.args = [i \in DOMAIN @ |-> CanonExpr(@[i])]]

CanonChip(c) ==
  [c EXCEPT !.gates = [i \in DOMAIN @ |-> [@[i] EXCEPT !.expr = CanonExpr(@)]]]

\* A chip hash that covers the hash field the caller sent.
compute_chip_hash_with_field(chip) == jcs_hash(CanonChip(chip))

\* engine.rs compute_chip_hash: the hash field is blanked first.
compute_chip_hash(chip) == jcs_hash(CanonChip([chip EXCEPT !.hash = EmptyHash]))

SomeStr(s) == [t |-> "some", v |-> s]

\* engine.rs eval_gate_expr -> (result, values, error)
eval_gate_expr(expr, ctx, meta) ==
  IF expr.type = "compare"
  THEN With(eval_expr(expr.left, ctx, meta), LAMBDA l :
       With(eval_expr(expr.right, ctx, meta), LAMBDA r :
         [result |-> compare_strict(expr.op, l, r),
          values |-> [left |-> l, right |-> r], error |-> None]))
  ELSE With(eval_expr(expr, ctx, meta), LAMBDA v :
         IF IsBoolV(v)
         THEN [result |-> v.v, values |-> [left |-> None, right |-> None], error |-> None]
         ELSE [result |-> FALSE, values |-> [left |-> None, right |-> None],
               error |-> SomeStr("gate_not_boolean")])

RECURSIVE SumWeights(_, _, _)
SumWeights(gates, weights, i) ==
  IF i > Len(gates) THEN 0
  ELSE (IF gates[i].result THEN weights[i] ELSE 0) + SumWeights(gates, weights, i + 1)

\* The composition a chip names: an unknown shorthand is ALL.
CompositionDef(composition) ==
  IF composition.form = "shorthand"
  THEN [kind |-> IF composition.s \in {"ALL", "ANY", "MAJORITY", "WEIGHTED"}
                 THEN composition.s ELSE "ALL",
        weights |-> <<>>, threshold |-> 0]
  ELSE [kind |-> composition.kind, weights |-> composition.weights,
        threshold |-> composition.threshold]

\* gates.len().max(1)
TotalGates(gates) == IF Len(gates) > 1 THEN Len(gates) ELSE 1

\* A threshold met by an equal sum.
MeetsThreshold(sum, threshold) == sum >= threshold

\* sum > comp.threshold
ExceedsThreshold(sum, threshold) == sum > threshold

\* The final_result of execute_chip_signed.
FinalResult(comp, gates) ==
  LET passed == Cardinality({i \in DOMAIN gates : gates[i].result})
      total == TotalGates(gates)
  IN CASE comp.kind = "ALL" -> IF passed = total THEN 1 ELSE 0
       [] comp.kind = "ANY" -> IF passed > 0 THEN 1 ELSE 0
       [] comp.kind = "MAJORITY" -> IF passed * 2 > total THEN 1 ELSE 0
       [] comp.kind = "WEIGHTED" ->
            IF Len(comp.weights) # Len(gates) THEN 0
            ELSE IF ExceedsThreshold(SumWeights(gates, comp.weights, 1), comp.threshold)
                 THEN 1 ELSE 0

\* The ids of the gates that passed.
RECURSIVE PassedIds(_, _)
PassedIds(gates, i) ==
  IF i > Len(gates) THEN <<>>
  ELSE (IF gates[i].result THEN <<gates[i].id>> ELSE <<>>) \o PassedIds(gates, i + 1)

\* gates.iter().filter(|g| !g.result).map(|g| g.id.clone()).collect()
RECURSIVE FailedIds(_, _)
FailedIds(gates, i) ==
  IF i > Len(gates) THEN <<>>
  ELSE (IF gates[i].result THEN <<>> ELSE <<gates[i].id>>) \o FailedIds(gates, i + 1)

CanonProof(p) ==
  [p EXCEPT !.context_snapshot = Canon(@),
            !.gates = [i \in DOMAIN @ |->
                         [@[i] EXCEPT !.values = [left |-> Canon(@.left), right |-> Canon(@.right)]]]]

\* The proof_hash of a proof: proof_hash and signature are blanked first.
ProofHash(proof) == jcs_hash(CanonProof([proof EXCEPT !.proof_hash = EmptyHash, !.signature = None]))

\* engine.rs execute_chip_signed
execute_chip_signed(chip, ctx, meta, keys) ==
  With([i \in DOMAIN chip.gates |->
          With(eval_gate_expr(chip.gates[i].expr, ctx, meta), LAMBDA g :
            [id |-> chip.gates[i].id, result |-> g.result, values |-> g.values,
             error |-> g.error])], LAMBDA gates :
  With([chip_hash |-> chip.hash,
        evaluated_at |-> now_rfc3339(meta),
        context_snapshot |-> ctx,
        gates |-> gates,
        failed_gates |-> FailedIds(gates, 1),
        final_result |-> FinalResult(CompositionDef(chip.composition), gates),
        proof_hash |-> EmptyHash,
        signature |-> None], LAMBDA proof :
  With(ProofHash(proof), LAMBDA hash :
    [proof EXCEPT !.proof_hash = hash, !.signature = sign_b64(keys, hash)])))

\* The execution time verify_proof replays at: evaluated_at parsed, the wall
\* clock when it does not parse.
ReplayTime(evaluated_at, wall) ==
  With(parse_ts(evaluated_at), LAMBDA parsed : IF IsNone(parsed) THEN wall ELSE parsed.v)

\* verify_proof without the recomputation of proof_hash.
verify_proof_unhashed(proof, chip, keys, wall) ==
  IF proof.chip_hash # chip.hash THEN FALSE
  ELSE IF execute_chip_signed(chip, proof.context_snapshot,
                              ExecMeta(<<"v", "e", "r", "i", "f", "y">>,
                                       ReplayTime(proof.evaluated_at, wall)),
                              NoKeys).final_result # proof.final_result THEN FALSE
  ELSE IF ~IsNone(proof.signature) /\ ~IsNone(keys.verifying)
  THEN verify_sig_b64(keys, proof.proof_hash, proof.signature)
  ELSE TRUE

\* verify_proof without the signature check.
verify_proof_unsigned(proof, chip, keys, wall) ==
  IF proof.chip_hash # chip.hash THEN FALSE
  ELSE IF ProofHash(proof) # proof.proof_hash THEN FALSE
  ELSE execute_chip_signed(chip, proof.context_snapshot,
                           ExecMeta(<<"v", "e", "r", "i", "f", "y">>,
                                    ReplayTime(proof.evaluated_at, wall)),
                           NoKeys).final_result = proof.final_result

\* engine.rs verify_proof; wall is the wall clock at the call.
verify_proof(proof, chip, keys, wall) ==
  IF proof.chip_hash # chip.hash THEN FALSE
  ELSE IF ProofHash(proof) # proof.proof_hash THEN FALSE
  ELSE IF execute_chip_signed(chip, proof.context_snapshot,
                              ExecMeta(<<"v", "e", "r", "i", "f", "y">>,
                                       ReplayTime(proof.evaluated_at, wall)),
                              NoKeys).final_result # proof.final_result THEN FALSE
  ELSE IF ~IsNone(proof.signature) /\ ~IsNone(keys.verifying)
  THEN verify_sig_b64(keys, proof.proof_hash, proof.signature)
  ELSE TRUE

\* ------------------------------------------------------------------------
\* JSON text (Value::to_string, serde_json::to_string)
\* ------------------------------------------------------------------------
\* The characters of the model in code-point order.
Alphabet ==
  <<" ", "\"", "#", ",", "-", ".", "0", "1", "2", "3", "4", "5", "6", "7", "8", "9", ":",
    "T", "Z", "[", "]", "_", "a", "b", "c", "d", "e", "f", "g", "h", "i", "j", "k", "l", "m",
    "n", "o", "p", "q", "r", "s", "t", "u", "v", "w", "x", "y", "z", "{", "}">>

CharRank(c) == CHOOSE i \in 1..Len(Alphabet) : Alphabet[i] = c

\* a < b in the byte order of the keys of a serde_json Map.
RECURSIVE StrLess(_, _)
StrLess(a, b) ==
  IF b = <<>> THEN FALSE
  ELSE IF a = <<>> THEN TRUE
  ELSE IF Head(a) = Head(b) THEN StrLess(Tail(a), Tail(b))
  ELSE CharRank(Head(a)) < CharRank(Head(b))

RECURSIVE SortedKeys(_)
SortedKeys(keys) ==
  IF keys = {} THEN <<>>
  ELSE LET k == CHOOSE x \in keys : \A y \in keys \ {x} : StrLess(x, y)
       IN <<k>> \o SortedKeys(keys \ {k})

Quoted(str) == <<"\"">> \o str \o <<"\"">>

RECURSIVE JoinComma(_)
JoinComma(texts) ==
  IF texts = <<>> THEN <<>>
  ELSE IF Len(texts) = 1 THEN texts[1]
  ELSE texts[1] \o <<",">> \o JoinComma(Tail(texts))

RECURSIVE JsonText(_)
JsonText(x) ==
  CASE x.t = "null" -> <<"n", "u", "l", "l">>
    [] x.t = "bool" -> IF x.v THEN <<"t", "r", "u", "e">> ELSE <<"f", "a", "l", "s", "e">>
    [] x.t = "num" -> IntText(x.v) \o (IF x.f THEN <<".", "0">> ELSE <<>>)
    [] x.t = "str" -> Quoted(x.v)
    [] x.t = "arr" -> <<"[">> \o JoinComma([i \in DOMAIN x.v |-> JsonText(x.v[i])]) \o <<"]">>
    [] x.t = "obj" ->
         With(SortedKeys(DOMAIN x.v), LAMBDA ks :
           <<"{">>
             \o JoinComma([i \in DOMAIN ks |-> Quoted(ks[i]) \o <<":">> \o JsonText(x.v[ks[i]])])
             \o <<"}">>)

\* serde_json::to_string(&proof.failed_gates)
FailedGatesText(failed_gates) ==
  <<"[">> \o JoinComma([i \in DOMAIN failed_gates |-> Quoted(failed_gates[i])]) \o <<"]">>

\* ------------------------------------------------------------------------
\* Template interpolation (interp.rs)
\* ------------------------------------------------------------------------
Some(x) == [t |-> "some", v |-> x]

TokNow == <<"n", "o", "w">>
TokTxId == <<"t", "x", "_", "i", "d">>
TokFailed == <<"p", "r", "o", "o", "f", ".", "f", "a", "i", "l", "e", "d", "_",
               "g", "a", "t", "e", "s">>
KeyInput == <<"i", "n", "p", "u", "t">>
Braced(tok) == <<"{">> \o tok \o <<"}">>

\* A resolver without the fallback to the input object.
resolve_token_direct(ctx, token) ==
  With(split_path(token), LAMBDA parts :
    IF parts = <<>> THEN None ELSE resolve_path(ctx, parts))

\* interp.rs resolve_token
resolve_token(ctx, token) ==
  With(split_path(token), LAMBDA parts :
    IF parts = <<>> THEN None
    ELSE IF ~IsNone(resolve_path(ctx, parts)) THEN resolve_path(ctx, parts)
    ELSE IF Len(parts) = 1 THEN resolve_path(ctx, <<KeyInput, parts[1]>>)
    ELSE IF parts[1] # KeyInput THEN resolve_path(ctx, <<KeyInput>> \o parts)
    ELSE None)

\* The replacement the scan of interpolate_str computes for a token.
TokenReplacement(token, ctx, proof, meta) ==
  CASE token = TokNow -> JStr(now_rfc3339(meta))
    [] token = TokTxId -> JStr(meta.tx_id)
    [] token = TokFailed ->
         IF IsNone(proof) THEN None ELSE JStr(FailedGatesText(proof.v.failed_gates))
    [] OTHER -> resolve_token(ctx, token)

\* The most rounds of the token scan the model follows.
MaxScan == 6

\* The token loop of interpolate_str for one (open, close) pair: the first
\* open, the first close after it, the text between replaced, and again.
\* done is FALSE when the loop is still running after fuel rounds.
RECURSIVE ScanTokens(_, _, _, _, _, _, _)
ScanTokens(out, open, close, ctx, proof, meta, fuel) ==
  With(Find(out, open), LAMBDA start :
  With(IF start = 0 THEN 0 ELSE FindFrom(out, close, start + Len(open)), LAMBDA end :
    IF start = 0 \/ end = 0 THEN [done |-> TRUE, out |-> out]
    ELSE IF fuel = 0 THEN [done |-> FALSE, out |-> out]
    ELSE With(Trim(SubSeq(out, start + Len(open), end - 1)), LAMBDA token :
         With(TokenReplacement(token, ctx, proof, meta), LAMBDA rep :
           ScanTokens(SubSeq(out, 1, start - 1)
                        \o (IF IsNone(rep) THEN token
                            ELSE IF IsStr(rep) THEN rep.v ELSE JsonText(rep))
                        \o SubSeq(out, end + Len(close), Len(out)),
                      open, close, ctx, proof, meta, fuel - 1)))))

\* The replace calls interpolate_str starts with.
SpecialTokens(template, proof, meta) ==
  With(now_rfc3339(meta), LAMBDA now :
  With(Replace(Replace(Replace(Replace(template, Braced(TokNow), now),
                               Braced(Braced(TokNow)), now),
                       Braced(TokTxId), meta.tx_id),
               Braced(Braced(TokTxId)), meta.tx_id), LAMBDA s :
    IF IsNone(proof) THEN s
    ELSE With(FailedGatesText(proof.v.failed_gates), LAMBDA fg :
           Replace(Replace(s, Braced(TokFailed), fg), Braced(Braced(TokFailed)), fg))))

\* interp.rs interpolate_str, with whether it returned within MaxScan rounds
\* of each scan.
Interpolate(template, ctx, proof, meta) ==
  With(ScanTokens(SpecialTokens(template, proof, meta), <<"{">>, <<"}">>,
                  ctx, proof, meta, MaxScan), LAMBDA first :
    IF ~first.done THEN first
    ELSE ScanTokens(first.out, <<"{", "{">>, <<"}", "}">>, ctx, proof, meta, MaxScan))

interpolate_str(template, ctx, proof, meta) == Interpolate(template, ctx, proof, meta).out

\* interp.rs interpolate_value
RECURSIVE interpolate_value(_, _, _, _)
interpolate_value(v, ctx, proof, meta) ==
  CASE v.t = "str" -> JStr(interpolate_str(v.v, ctx, proof, meta))
    [] v.t = "arr" -> JArr([i \in DOMAIN v.v |-> interpolate_value(v.v[i], ctx, proof, meta)])
    [] v.t = "obj" -> JObj([k \in DOMAIN v.v |-> interpolate_value(v.v[k], ctx, proof, meta)])
    [] OTHER -> v

\* ------------------------------------------------------------------------
\* Programs, effects and records (types.rs)
\* ------------------------------------------------------------------------
ContextDef(name, source, path, expression) ==
  [name |-> name, source |-> source, path |-> path, expression |-> expression]

\* Program.evaluate: a chip hash or the sentinel CHIP:<name>.
ChipRef(name) == [alg |-> "CHIP:", name |-> name]

Program(name, context, evaluate, on_allow, on_deny) ==
  [name |-> name, description |-> <<>>, inputs |-> <<>>, context |-> context,
   evaluate |-> evaluate, on_allow |-> on_allow, on_deny |-> on_deny, hash |-> EmptyHash]

EffSet(target, value) == [type |-> "set", target |-> target, value |-> value]
EffIncrement(target, amount) == [type |-> "increment", target |-> target, amount |-> amount]
EffDecrement(target, amount) == [type |-> "decrement", target |-> target, amount |-> amount]
EffAppend(target, value) == [type |-> "append", target |-> target, value |-> value]
EffRemove(target, value) == [type |-> "remove", target |-> target, value |-> value]
EffCreate(entity_type, id, data) ==
  [type |-> "create", entity_type |-> entity_type, id |-> id, data |-> data]
EffDelete(target) == [type |-> "delete", target |-> target]
EffEmit(event, data) == [type |-> "emit", event |-> event, data |-> data]
EffFail(message) == [type |-> "fail", message |-> message]

CanonEffect(e) ==
  CASE e.type \in {"set", "append", "remove"} -> [e EXCEPT !.value = CanonExpr(@)]
    [] e.type \in {"increment", "decrement"} -> [e EXCEPT !.amount = CanonExpr(@)]
    [] e.type = "create" -> [e EXCEPT !.id = CanonExpr(@), !.data = Canon(@)]
    [] e.type = "emit" -> [e EXCEPT !.data = Canon(@)]
    [] OTHER -> e

CanonEffects(effs) == [i \in DOMAIN effs |-> CanonEffect(effs[i])]

CanonProgram(p) ==
  [p EXCEPT !.context = [i \in DOMAIN @ |->
                           [@[i] EXCEPT !.expression =
                              IF IsNone(@) THEN JNull ELSE Some(CanonExpr(@.v))]],
            !.on_allow = CanonEffects(@), !.on_deny = CanonEffects(@)]

\* engine.rs compute_program_hash
compute_program_hash(program) == jcs_hash(CanonProgram([program EXCEPT !.hash = EmptyHash]))

CanonRecord(r) == [r EXCEPT !.applied_effects = CanonEffects(@)]

\* A record_hash that leaves the applied effects out.
RecordHashWithoutEffects(record) ==
  jcs_hash(CanonRecord([record EXCEPT !.record_hash = EmptyHash, !.record_signature = None,
                                      !.applied_effects = <<>>]))

\* The record_hash of a record: record_hash and record_signature are
\* blanked first (ledger.rs 259-262).
RecordHash(record) ==
  jcs_hash(CanonRecord([record EXCEPT !.record_hash = EmptyHash, !.record_signature = None]))

\* ------------------------------------------------------------------------
\* Effect application (the loop of apply_transaction)
\* ------------------------------------------------------------------------
\* idv.as_str() or idv.to_string()
IdStr(idv) == IF IsStr(idv) THEN idv.v ELSE JsonText(idv)

\* get_path(..).and_then(as_array).unwrap_or_default()
ArrayAt(root, t) ==
  With(get_path(root, t), LAMBDA cur : IF ~IsNone(cur) /\ IsArr(cur) THEN cur.v ELSE <<>>)

\* get_path(..).and_then(as_f64).unwrap_or(0.0)
NumberAt(root, t) ==
  With(get_path(root, t), LAMBDA cur : IF ~IsNone(cur) /\ IsNum(cur) THEN cur.v ELSE 0)

\* arr.retain(|x| x != v)
RECURSIVE Retain(_, _)
Retain(arr, v) ==
  IF arr = <<>> THEN <<>>
  ELSE (IF Head(arr) = v THEN <<>> ELSE <<Head(arr)>>) \o Retain(Tail(arr), v)

\* What one effect does to the working copy: Ok([root, applied]) with the
\* new working copy and the concretized effect, or the error returned.
Done(root, eff) == Ok([root |-> root, applied |-> eff])

Written(res, eff) == IF res.ok THEN Done(res.val, eff) ELSE res

\* A check that never finds the entity.
EntityNeverExists(root, entity_type, id_str) == FALSE

\* root.get(entity_type).and_then(|c| c.get(&id_str)).is_some()
EntityExists(root, entity_type, id_str) == ~IsNone(Get(Get(root, entity_type), id_str))

apply_effect(eff, root, proof, meta) ==
  CASE eff.type = "fail" -> Err("Validation", "program_fail")
    [] eff.type = "emit" ->
         Done(root, EffEmit(interpolate_str(eff.event, proof.context_snapshot, Some(proof), meta),
                            interpolate_value(eff.data, proof.context_snapshot, Some(proof), meta)))
    [] eff.type = "create" ->
         With(IdStr(eval_expr(eff.id, proof.context_snapshot, meta)), LAMBDA id_str :
           IF EntityExists(root, eff.entity_type, id_str)
           THEN Err("Validation", "entity_exists")
           ELSE With(interpolate_value(eff.data, proof.context_snapshot, Some(proof), meta),
                     LAMBDA data :
                With(ensure_obj_path(root, eff.entity_type), LAMBDA ensured :
                  IF ~ensured.ok THEN ensured
                  ELSE Done(Insert(ensured.val, eff.entity_type,
                                   Insert(Get(ensured.val, eff.entity_type), id_str, data)),
                            EffCreate(eff.entity_type, lit(JStr(id_str)), data)))))
    [] OTHER ->
         With(interpolate_str(eff.target, proof.context_snapshot, Some(proof), meta), LAMBDA t :
           IF eff.type = "delete" THEN Written(delete_path(root, t), EffDelete(t))
           ELSE IF eff.type \in {"increment", "decrement"}
           THEN With(NumOr0(interpolate_value(eval_expr(eff.amount, proof.context_snapshot, meta),
                                              proof.context_snapshot, Some(proof), meta)),
                     LAMBDA a :
                  IF eff.type = "increment"
                  THEN Written(set_path(root, t, JFloat(NumberAt(root, t) + a)),
                               EffIncrement(t, lit(JFloat(a))))
                  ELSE Written(set_path(root, t, JFloat(NumberAt(root, t) - a)),
                               EffDecrement(t, lit(JFloat(a)))))
           ELSE With(interpolate_value(eval_expr(eff.value, proof.context_snapshot, meta),
                                       proof.context_snapshot, Some(proof), meta),
                     LAMBDA v :
                  CASE eff.type = "set" -> Written(set_path(root, t, v), EffSet(t, lit(v)))
                    [] eff.type = "append" ->
                         Written(set_path(root, t, JArr(Append(ArrayAt(root, t), v))),
                                 EffAppend(t, lit(v)))
                    [] eff.type = "remove" ->
                         Written(set_path(root, t, JArr(Retain(ArrayAt(root, t), v))),
                                 EffRemove(t, lit(v)))))

\* The loop with a fail effect passed over instead of returned.
RECURSIVE apply_effects_past_fail(_, _, _, _, _)
apply_effects_past_fail(effects, root, applied, proof, meta) ==
  IF effects = <<>> THEN Ok([root |-> root, applied |-> applied])
  ELSE IF Head(effects).type = "fail"
  THEN apply_effects_past_fail(Tail(effects), root, Append(applied, Head(effects)), proof, meta)
  ELSE With(apply_effect(Head(effects), root, proof, meta), LAMBDA one :
         IF ~one.ok THEN one
         ELSE apply_effects_past_fail(Tail(effects), one.val.root,
                                      Append(applied, one.val.applied), proof, meta))

\* The loop recording each effect as the program wrote it.
RECURSIVE apply_effects_raw(_, _, _, _, _)
apply_effects_raw(effects, root, applied, proof, meta) ==
  IF effects = <<>> THEN Ok([root |-> root, applied |-> applied])
  ELSE With(apply_effect(Head(effects), root, proof, meta), LAMBDA one :
         IF ~one.ok THEN one
         ELSE apply_effects_raw(Tail(effects), one.val.root, Append(applied, Head(effects)),
                                proof, meta))

\* The loop with every effect applied to the root the transaction started
\* from: the root it leaves is that of the last effect alone.
RECURSIVE apply_effects_each_on_root(_, _, _, _, _)
apply_effects_each_on_root(effects, root, applied, proof, meta) ==
  IF effects = <<>> THEN Ok([root |-> root, applied |-> applied])
  ELSE With(apply_effect(Head(effects), root, proof, meta), LAMBDA one :
         IF ~one.ok THEN one
         ELSE With(apply_effects_each_on_root(Tail(effects), root,
                                              Append(applied, one.val.applied), proof, meta),
                   LAMBDA rest :
                IF ~rest.ok \/ Tail(effects) # <<>> THEN rest
                ELSE Ok([root |-> one.val.root, applied |-> rest.val.applied])))

\* The for loop over the effects: Ok([root, applied]) or the first error.
RECURSIVE apply_effects(_, _, _, _, _)
apply_effects(effects, root, applied, proof, meta) ==
  IF effects = <<>> THEN Ok([root |-> root, applied |-> applied])
  ELSE With(apply_effect(Head(effects), root, proof, meta), LAMBDA one :
         IF ~one.ok THEN one
         ELSE apply_effects(Tail(effects), one.val.root, Append(applied, one.val.applied),
                            proof, meta))

\* ------------------------------------------------------------------------
\* The ledger (ledger.rs)
\* ------------------------------------------------------------------------
NoTarget == [t |-> "none"]
Target(v) == [t |-> "some", v |-> v]

\* The LedgerState of a ledger created without a file (Ledger::new, 45-49).
CreatedAt == <<"T", "0", "Z">>
FreshState ==
  [meta |-> [version |-> 0, created_at |-> CreatedAt],
   registry |-> [chips |-> EmptyMap, chip_names |-> EmptyMap, programs |-> EmptyMap],
   root |-> EmptyObj,
   history |-> <<>>]

\* LedgerState::default(), what Ledger::new keeps of a file that does not
\* parse (unwrap_or_default): the root is Value::Null.
DefaultState ==
  [meta |-> [version |-> 0, created_at |-> <<>>],
   registry |-> [chips |-> EmptyMap, chip_names |-> EmptyMap, programs |-> EmptyMap],
   root |-> JNull,
   history |-> <<>>]

MapPut(m, k, val) == [kk \in (DOMAIN m) \cup {k} |-> IF kk = k THEN val ELSE m[kk]]

\* No name is ever in conflict: a registered name is bound again.
NameNeverConflicts(names, name, computed) == FALSE

\* A conflict only when the name is bound to the hash being registered.
NameConflictOnSame(names, name, computed) == name \in DOMAIN names /\ names[name] = computed

\* The name is bound to another hash (ledger.rs 95-96).
NameConflict(names, name, computed) == name \in DOMAIN names /\ names[name] # computed

\* ledger.rs register_chip, the section under the write lock:
\* the state it leaves and what it returns.
register_chip(st, chip0) ==
  With(compute_chip_hash(chip0), LAMBDA computed :
    IF NameConflict(st.registry.chip_names, chip0.name, computed)
    THEN [state |-> st, result |-> Err("Validation", "chip_name_conflict")]
    ELSE [state |-> [st EXCEPT !.registry.chip_names = MapPut(@, chip0.name, computed),
                               !.registry.chips =
                                  MapPut(@, computed, [chip0 EXCEPT !.hash = computed])],
          result |-> Ok(computed)])

\* A registration that keeps the program a name already has.
register_program_first_wins(st, program0) ==
  With(compute_program_hash(program0), LAMBDA computed :
    [state |-> IF program0.name \in DOMAIN st.registry.programs THEN st
               ELSE [st EXCEPT !.registry.programs =
                                  MapPut(@, program0.name, [program0 EXCEPT !.hash = computed])],
     result |-> Ok(computed)])

\* ledger.rs register_program
register_program(st, program0) ==
  With(compute_program_hash(program0), LAMBDA computed :
    [state |-> [st EXCEPT !.registry.programs =
                             MapPut(@, program0.name, [program0 EXCEPT !.hash = computed])],
     result |-> Ok(computed)])

\* ledger.rs get_program
get_program(st, name) ==
  IF name \in DOMAIN st.registry.programs THEN Some(st.registry.programs[name]) ELSE None

\* ledger.rs get_chip
get_chip(st, hash) ==
  IF hash \in DOMAIN st.registry.chips THEN Some(st.registry.chips[hash]) ELSE None

\* ledger.rs get_chip_by_name
get_chip_by_name(st, name) ==
  IF name \in DOMAIN st.registry.chip_names
  THEN get_chip(st, st.registry.chip_names[name])
  ELSE None

\* The check with the comparison the wrong way: only a stale target conflicts.
VersionConflictStale(target_version, v) == ~IsNone(target_version) /\ target_version.v < v

\* The optimistic version check of apply_transaction (152-156).
VersionConflict(target_version, v) == ~IsNone(target_version) /\ target_version.v # v

\* A record that never links to the one before it.
PrevHashAbsent(history) == None

\* st.history.last().map(|r| r.record_hash.clone())
PrevHash(history) == IF history = <<>> THEN None ELSE history[Len(history)].record_hash

\* A version that skips one.
NewVersionSkipping(v) == v + 2

\* let new_version = v + 1
NewVersion(v) == v + 1

\* The record apply_transaction builds (245-267).
BuildRecord(st, program_hash, input_hash, proof, applied, meta, keys) ==
  With([id |-> meta.tx_id,
        version_applied_to |-> st.meta.version,
        resulting_version |-> NewVersion(st.meta.version),
        timestamp |-> now_rfc3339(meta),
        program_hash |-> program_hash,
        input_hash |-> input_hash,
        proof_hash |-> proof.proof_hash,
        applied_effects |-> applied,
        previous_record_hash |-> PrevHash(st.history),
        record_hash |-> EmptyHash,
        record_signature |-> None], LAMBDA record :
  With(RecordHash(record), LAMBDA hash :
    [record EXCEPT !.record_hash = hash, !.record_signature = sign_b64(keys, hash)]))

\* Publishing with the record left out of the history.
PublishUnrecorded(st, root, record) ==
  [st EXCEPT !.root = root, !.meta.version = NewVersion(st.meta.version)]

\* Publishing with the history replaced by the new record.
PublishLatestOnly(st, root, record) ==
  [st EXCEPT !.root = root,
             !.meta.version = NewVersion(st.meta.version),
             !.history = <<record>>]

\* The three assignments that publish a transaction (269-271).
Publish(st, root, record) ==
  [st EXCEPT !.root = root,
             !.meta.version = NewVersion(st.meta.version),
             !.history = Append(@, record)]

\* ledger.rs apply_transaction from taking the write lock to dropping it
\* (149-272): the state it leaves and the record or error it has so far.
apply_transaction(st, program_hash, input_hash, target_version, proof, effects, meta, keys) ==
  IF VersionConflict(target_version, st.meta.version)
  THEN [state |-> st, result |-> Err("Validation", "version_conflict")]
  ELSE With(apply_effects(effects, st.root, <<>>, proof, meta), LAMBDA done :
         IF ~done.ok THEN [state |-> st, result |-> done]
         ELSE With(BuildRecord(st, program_hash, input_hash, proof, done.val.applied, meta, keys),
                   LAMBDA record :
                [state |-> Publish(st, done.val.root, record), result |-> Ok(record)]))

\* ------------------------------------------------------------------------
\* Context binding (api.rs execute, 43-67)
\* ------------------------------------------------------------------------
\* One context definition bound into the context built so far.
bind_one(c, ctx, inputs, ledger_root, meta) ==
  CASE c.source = "input" ->
         With(resolve_path(inputs, split_path(c.path)), LAMBDA v :
           IF IsNone(v) THEN ctx ELSE Insert(ctx, c.name, v))
    [] c.source = "ledger" ->
         With(resolve_path(ledger_root, split_path(interpolate_str(c.path, ctx, None, meta))),
              LAMBDA v :
           IF IsNone(v) THEN ctx ELSE Insert(ctx, c.name, v))
    [] c.source = "computed" ->
         IF IsNone(c.expression) THEN ctx
         ELSE Insert(ctx, c.name, eval_expr(c.expression.v, ctx, meta))

RECURSIVE bind_all(_, _, _, _, _)
bind_all(defs, ctx, inputs, ledger_root, meta) ==
  IF defs = <<>> THEN ctx
  ELSE bind_all(Tail(defs), bind_one(Head(defs), ctx, inputs, ledger_root, meta),
                inputs, ledger_root, meta)

\* The context execute binds: the input under `input`, then the program's
\* definitions in order.
bind_context(prog, inputs, ledger_root, meta) ==
  bind_all(prog.context, JObj(KeyInput :> inputs), inputs, ledger_root, meta)

\* ------------------------------------------------------------------------
\* The artifacts and requests the model draws from
\* ------------------------------------------------------------------------
KeyA == <<"a">>
KeyN == <<"n">>
PathCN == <<"c", ".", "n">>
PathCK == <<"c", ".", "k">>
NameP == <<"p">>

\* allow iff the input amount is positive and the ledger counter c.n,
\* bound into the context as n, is still below one.
ChipGuard ==
  Chip(NameP,
       <<Gate(<<"g">>, Compare(">", Path(<<KeyA>>, None), Literal(JInt(0)))),
         Gate(<<"h">>, Compare("<", Path(<<KeyN>>, JInt(0)), Literal(JInt(1))))>>,
       Shorthand("ALL"))

\* The same name with another gate set.
ChipOther ==
  Chip(NameP, <<Gate(<<"g">>, Compare(">", Path(<<KeyA>>, None), Literal(JInt(0))))>>,
       Shorthand("ANY"))

ChipCatalog == {ChipGuard, ChipOther}

ContextAN ==
  <<ContextDef(KeyA, "input", KeyA, None), ContextDef(KeyN, "ledger", PathCN, None)>>

ProgCount ==
  Program(<<"q">>, ContextAN, ChipRef(NameP),
          <<EffIncrement(PathCN, Path(<<KeyA>>, None))>>,
          <<EffEmit(<<"d", ":">> \o Braced(TokTxId), EmptyObj)>>)

ProgFail ==
  Program(<<"f">>, ContextAN, ChipRef(NameP),
          <<EffSet(PathCK, Path(<<KeyA>>, None)),
            EffIncrement(PathCN, Literal(JInt(1))),
            EffAppend(<<"l">>, Literal(JStr(Braced(KeyA)))),
            EffCreate(<<"e">>, Literal(JStr(<<"i">>)), JObj(<<"b">> :> JStr(Braced(TokNow)))),
            EffDelete(PathCK),
            EffFail(<<"m">>)>>,
          <<EffSet(<<".">>, Literal(JInt(1))), EffFail(<<"m">>)>>)

ProgramCatalog == {ProgCount, ProgFail}
ProgramNames == {p.name : p \in ProgramCatalog}

InputCatalog == {JObj(KeyA :> JInt(1)), JObj(KeyA :> JInt(0))}

\* The key material of the server (KeyMaterial::from_env): a signing key,
\* and its public half as the verifying key.
ServerKeys == KeyMaterial(Key("k1"), Key("k1"))

\* Bounds of the model.
MaxTx == 2

\* The request slots: two requests may be in flight at once.
Requests == {1, 2}
Ticks == {0}
TargetVersions == {NoTarget, Target(1)}

\* ------------------------------------------------------------------------
\* The server: the ledger in memory, the ledger file and its temporary
\* sibling, and the requests in flight.
\* ------------------------------------------------------------------------
VARIABLES state, file, tmp, req, next_tx, keys, pv

\* The variables of the server, and all of them.
server == <<state, file, tmp, req, next_tx, keys>>
vars == <<state, file, tmp, req, next_tx, keys, pv>>

\* ------------------------------------------------------------------------
\* The ledger file: what the derived Serialize and Deserialize of the types
\* write and read (types.rs, ledger.rs 13-33).  A struct is written as an
\* object of its fields, a String as a JSON string, a u64 as an integer, an
\* f64 as a float, an Option as null or the value, a Value as itself, a
\* tagged enum as an object with its tag; a hash is the string of its hex
\* digits, the empty string when it is blank.
\* ------------------------------------------------------------------------
Missing == [kind |-> "missing"]
Malformed == [kind |-> "malformed"]

HexStr(h) == [t |-> "hex", v |-> h]
hash_to_json(h) == IF h = EmptyHash THEN JStr(<<>>) ELSE HexStr(h)
hash_from_json(d) == IF d.t = "hex" THEN d.v ELSE EmptyHash

\* Option<T>: null is None whatever T is, so Some(Value::Null) reads back
\* as None.
opt_to_json(o, F(_)) == IF o = None THEN JNull ELSE F(o)
opt_from_json(d, F(_)) == IF "t" \in DOMAIN d /\ d.t = "null" THEN None ELSE F(d)

Same(x) == x
strs_to_json(strs) == [i \in DOMAIN strs |-> JStr(strs[i])]
strs_from_json(d) == [i \in DOMAIN d |-> d[i].v]

\* types.rs Expr: tagged by "type".
RECURSIVE expr_to_json(_)
expr_to_json(e) ==
  CASE e.type = "literal" -> [type |-> "literal", value |-> e.value]
    [] e.type = "path" -> [type |-> "path", path |-> strs_to_json(e.path),
                           fallback |-> opt_to_json(e.fallback, Same)]
    [] e.type = "compare" -> [type |-> "compare", op |-> e.op,
                              left |-> expr_to_json(e.left), right |-> expr_to_json(e.right)]
    [] OTHER -> [e EXCEPT !.args = [i \in DOMAIN @ |-> expr_to_json(@[i])]]

RECURSIVE expr_from_json(_)
expr_from_json(d) ==
  CASE d.type = "literal" -> Literal(d.value)
    [] d.type = "path" -> Path(strs_from_json(d.path), opt_from_json(d.fallback, Same))
    [] d.type = "compare" -> Compare(d.op, expr_from_json(d.left), expr_from_json(d.right))
    [] OTHER -> [d EXCEPT !.args = [i \in DOMAIN @ |-> expr_from_json(@[i])]]

\* types.rs Composition: untagged, so a string is read as Shorthand and an
\* object as Full; the f64 fields are written as floats.
composition_to_json(c) ==
  IF c.form = "shorthand" THEN [t |-> "str", v |-> c.s]
  ELSE [t |-> "obj", type |-> c.kind,
        weights |-> [i \in DOMAIN c.weights |-> JFloat(c.weights[i])],
        threshold |-> JFloat(c.threshold)]

composition_from_json(d) ==
  IF d.t = "str" THEN Shorthand(d.v)
  ELSE Full(d.type, [i \in DOMAIN d.weights |-> d.weights[i].v], d.threshold.v)

\* types.rs Gate and Chip
chip_to_json(c) ==
  [name |-> JStr(c.name), description |-> JStr(c.description),
   gates |-> [i \in DOMAIN c.gates |->
                [id |-> JStr(c.gates[i].id), description |-> JStr(c.gates[i].description),
                 expr |-> expr_to_json(c.gates[i].expr)]],
   composition |-> composition_to_json(c.composition),
   hash |-> hash_to_json(c.hash)]

chip_from_json(d) ==
  [name |-> d.name.v, description |-> d.description.v,
   gates |-> [i \in DOMAIN d.gates |->
                [id |-> d.gates[i].id.v, description |-> d.gates[i].description.v,
                 expr |-> expr_from_json(d.gates[i].expr)]],
   composition |-> composition_from_json(d.composition),
   hash |-> hash_from_json(d.hash)]

\* types.rs Effect: tagged by "type"; targets, events and messages are
\* strings, data is a Value.
effect_to_json(e) ==
  CASE e.type \in {"set", "append", "remove"} ->
         [type |-> e.type, target |-> JStr(e.target), value |-> expr_to_json(e.value)]
    [] e.type \in {"increment", "decrement"} ->
         [type |-> e.type, target |-> JStr(e.target), amount |-> expr_to_json(e.amount)]
    [] e.type = "create" ->
         [type |-> e.type, entity_type |-> JStr(e.entity_type), id |-> expr_to_json(e.id),
          data |-> e.data]
    [] e.type = "delete" -> [type |-> e.type, target |-> JStr(e.target)]
    [] e.type = "emit" -> [type |-> e.type, event |-> JStr(e.event), data |-> e.data]
    [] OTHER -> [type |-> e.type, message |-> JStr(e.message)]

effect_from_json(d) ==
  CASE d.type \in {"set", "append", "remove"} ->
         [type |-> d.type, target |-> d.target.v, value |-> expr_from_json(d.value)]
    [] d.type \in {"increment", "decrement"} ->
         [type |-> d.type, target |-> d.target.v, amount |-> expr_from_json(d.amount)]
    [] d.type = "create" -> EffCreate(d.entity_type.v, expr_from_json(d.id), d.data)
    [] d.type = "delete" -> EffDelete(d.target.v)
    [] d.type = "emit" -> EffEmit(d.event.v, d.data)
    [] OTHER -> EffFail(d.message.v)

effects_to_json(effs) == [i \in DOMAIN effs |-> effect_to_json(effs[i])]
effects_from_json(d) == [i \in DOMAIN d |-> effect_from_json(d[i])]

\* Program.evaluate is a String: the hex digits of a chip hash, or CHIP:
\* followed by a chip name.
ChipPrefix == <<"C", "H", "I", "P", ":">>
evaluate_to_json(ev) == IF ev.alg = "CHIP:" THEN JStr(ChipPrefix \o ev.name) ELSE HexStr(ev)
evaluate_from_json_whole(d) == IF d.t = "hex" THEN d.v ELSE ChipRef(d.v)
evaluate_from_json(d) ==
  IF d.t = "hex" THEN d.v ELSE ChipRef(SubSeq(d.v, Len(ChipPrefix) + 1, Len(d.v)))

\* types.rs ContextDef and Program
program_to_json(p) ==
  [name |-> JStr(p.name), description |-> JStr(p.description), inputs |-> p.inputs,
   context |-> [i \in DOMAIN p.context |->
                  [name |-> JStr(p.context[i].name), source |-> p.context[i].source,
                   path |-> JStr(p.context[i].path),
                   expression |-> IF IsNone(p.context[i].expression) THEN JNull
                                  ELSE expr_to_json(p.context[i].expression.v)]],
   evaluate |-> evaluate_to_json(p.evaluate),
   on_allow |-> effects_to_json(p.on_allow), on_deny |-> effects_to_json(p.on_deny),
   hash |-> hash_to_json(p.hash)]

program_from_json(d) ==
  [name |-> d.name.v, description |-> d.description.v, inputs |-> d.inputs,
   context |-> [i \in DOMAIN d.context |->
                  ContextDef(d.context[i].name.v, d.context[i].source, d.context[i].path.v,
                             IF "t" \in DOMAIN d.context[i].expression THEN None
                             ELSE Some(expr_from_json(d.context[i].expression)))],
   evaluate |-> evaluate_from_json(d.evaluate),
   on_allow |-> effects_from_json(d.on_allow), on_deny |-> effects_from_json(d.on_deny),
   hash |-> hash_from_json(d.hash)]

\* types.rs EffectRecord
record_to_json(r) ==
  [id |-> JStr(r.id), version_applied_to |-> JInt(r.version_applied_to),
   resulting_version |-> JInt(r.resulting_version), timestamp |-> JStr(r.timestamp),
   program_hash |-> hash_to_json(r.program_hash), input_hash |-> hash_to_json(r.input_hash),
   proof_hash |-> hash_to_json(r.proof_hash),
   applied_effects |-> effects_to_json(r.applied_effects),
   previous_record_hash |-> opt_to_json(r.previous_record_hash, hash_to_json),
   record_hash |-> hash_to_json(r.record_hash),
   record_signature |-> opt_to_json(r.record_signature, Same)]

record_from_json(d) ==
  [id |-> d.id.v, version_applied_to |-> d.version_applied_to.v,
   resulting_version |-> d.resulting_version.v, timestamp |-> d.timestamp.v,
   program_hash |-> hash_from_json(d.program_hash),
   input_hash |-> hash_from_json(d.input_hash),
   proof_hash |-> hash_from_json(d.proof_hash),
   applied_effects |-> effects_from_json(d.applied_effects),
   previous_record_hash |-> opt_from_json(d.previous_record_hash, hash_from_json),
   record_hash |-> hash_from_json(d.record_hash),
   record_signature |-> opt_from_json(d.record_signature, Same)]

\* ledger.rs LedgerState, Meta, Registry
state_to_json(st) ==
  [meta |-> [version |-> JInt(st.meta.version), created_at |-> JStr(st.meta.created_at)],
   registry |->
     [chips |-> [h \in DOMAIN st.registry.chips |-> chip_to_json(st.registry.chips[h])],
      chip_names |-> [n \in DOMAIN st.registry.chip_names |->
                        hash_to_json(st.registry.chip_names[n])],
      programs |-> [n \in DOMAIN st.registry.programs |->
                      program_to_json(st.registry.programs[n])]],
   root |-> st.root,
   history |-> [i \in DOMAIN st.history |-> record_to_json(st.history[i])]]

state_from_json(d) ==
  [meta |-> [version |-> d.meta.version.v, created_at |-> d.meta.created_at.v],
   registry |->
     [chips |-> [h \in DOMAIN d.registry.chips |-> chip_from_json(d.registry.chips[h])],
      chip_names |-> [n \in DOMAIN d.registry.chip_names |->
                        hash_from_json(d.registry.chip_names[n])],
      programs |-> [n \in DOMAIN d.registry.programs |->
                      program_from_json(d.registry.programs[n])]],
   root |-> d.root,
   history |-> [i \in DOMAIN d.history |-> record_from_json(d.history[i])]]

\* serde_json::to_string_pretty(&snapshot), the text of a file.
Serialize(st) == [kind |-> "state", text |-> state_to_json(st)]

\* Ledger::new (40-51): the state for the file found.
Load(f) ==
  CASE f = Missing -> FreshState
    [] f = Malformed -> DefaultState
    [] OTHER -> state_from_json(f.text)

Idle == [pc |-> "idle"]

\* The state an earlier run of the server left in the ledger file: the
\* guard chip and the two programs registered, no transaction yet.
RegisteredState ==
  register_program(register_program(register_chip(FreshState, ChipGuard).state,
                                    ProgCount).state, ProgFail).state

\* Ledger::new: no file, a file that does not parse, or the file an earlier
\* run left.
Init ==
  /\ file \in {Missing, Malformed, Serialize(RegisteredState)}
  /\ state = Load(file)
  /\ tmp = Missing
  /\ req = [r \in Requests |-> Idle]
  /\ next_tx = 0
  /\ keys = ServerKeys
  /\ pv = [stage |-> "unused"]

\* A new request takes the lowest free slot (the slots are interchangeable).
FreeSlot(r) == req[r].pc = "idle" /\ \A q \in Requests : q < r => req[q].pc # "idle"

Finished(result) == [pc |-> "done", result |-> result]

\* What a handler holds across the await of the ledger call: register
\* nothing, execute the tx_id, allowed and the proof (api.rs 30, 81, 83).
HeldByRegister == [handler |-> "register"]
HeldByExecute(meta, proof) ==
  [handler |-> "execute", tx_id |-> meta.tx_id, allowed |-> proof.final_result = 1,
   proof |-> proof]

\* The JSON body of a successful response (api.rs 94-99, 111, 116).
Body(held, val) ==
  IF held.handler = "register" THEN [hash |-> val, status |-> "registered"]
  ELSE [tx_id |-> held.tx_id, allowed |-> held.allowed, proof |-> held.proof,
        effect_record |-> val]

\* The handler returns Ok with its body.
Answered(held, result) == [pc |-> "done", result |-> result, body |-> Body(held, result.val)]

\* api.rs register, a chip: register_chip under the write lock.
RegisterChip(r, chip) ==
  /\ FreeSlot(r)
  /\ next_tx < MaxTx
  /\ \E out \in {register_chip(state, chip)} :
     /\ state' = out.state
     /\ req' = [req EXCEPT ![r] = IF out.result.ok
                                   THEN [pc |-> "commit", result |-> out.result,
                                         held |-> HeldByRegister]
                                   ELSE Finished(out.result)]
  /\ next_tx' = next_tx + 1
  /\ UNCHANGED <<file, tmp, keys, pv>>

\* api.rs register, a program: register_program under the write lock.
RegisterProgram(r, program) ==
  /\ FreeSlot(r)
  /\ next_tx < MaxTx
  /\ \E out \in {register_program(state, program)} :
     /\ state' = out.state
     /\ req' = [req EXCEPT ![r] = [pc |-> "commit", result |-> out.result,
                                   held |-> HeldByRegister]]
  /\ next_tx' = next_tx + 1
  /\ UNCHANGED <<file, tmp, keys, pv>>

\* api.rs execute 29-35: the meta of the request and get_program.
StartExecute(r, name, inputs, target_version, now) ==
  /\ FreeSlot(r)
  /\ next_tx < MaxTx
  /\ \E prog \in {get_program(state, name)} :
       req' = [req EXCEPT ![r] =
                 IF IsNone(prog) THEN Finished(Err("ProgramNotFound", "program"))
                 ELSE [pc |-> "bind",
                       prog |-> [prog.v EXCEPT !.hash = compute_program_hash(prog.v)],
                       inputs |-> inputs, target_version |-> target_version,
                       meta |-> ExecMeta(<<"x">> \o NatText(next_tx), now)]]
  /\ next_tx' = next_tx + 1
  /\ UNCHANGED <<state, file, tmp, keys, pv>>

\* api.rs execute 38-67: snapshot_root under the read lock, then the
\* context binding over that snapshot.
BindContext(r) ==
  /\ req[r].pc = "bind"
  /\ req' = [req EXCEPT ![r] =
               [pc |-> "chip", prog |-> req[r].prog, inputs |-> req[r].inputs,
                target_version |-> req[r].target_version, meta |-> req[r].meta,
                context |-> bind_context(req[r].prog, req[r].inputs, state.root, req[r].meta)]]
  /\ UNCHANGED <<state, file, tmp, next_tx, keys, pv>>

\* The chip a program evaluates (api.rs execute 70-78).
LookupChip(st, evaluate) ==
  With(IF evaluate.alg = "CHIP:" THEN get_chip_by_name(st, evaluate.name)
       ELSE get_chip(st, evaluate), LAMBDA found :
    IF IsNone(found) THEN None
    ELSE Some([found.v EXCEPT !.hash = compute_chip_hash(found.v)]))

\* The two branches taken for each other.
ChosenEffectsSwapped(prog, proof) ==
  IF proof.final_result = 1 THEN prog.on_deny ELSE prog.on_allow

\* on_allow when the proof's final_result is 1, on_deny otherwise (83-84).
ChosenEffects(prog, proof) == IF proof.final_result = 1 THEN prog.on_allow ELSE prog.on_deny

\* api.rs execute 70-86: the chip under the read lock, the proof, the
\* effects of the chosen branch and the input hash.
Evaluate(r) ==
  /\ req[r].pc = "chip"
  /\ \E chip \in {LookupChip(state, req[r].prog.evaluate)} :
       req' = [req EXCEPT ![r] =
                 IF IsNone(chip) THEN Finished(Err("ChipNotFound", "chip"))
                 ELSE With(execute_chip_signed(chip.v, req[r].context, req[r].meta, keys),
                           LAMBDA proof :
                        [pc |-> "apply", prog |-> req[r].prog, inputs |-> req[r].inputs,
                         target_version |-> req[r].target_version, meta |-> req[r].meta,
                         proof |-> proof,
                         effects |-> ChosenEffects(req[r].prog, proof),
                         input_hash |-> jcs_hash(Canon(req[r].inputs))])]
  /\ UNCHANGED <<state, file, tmp, next_tx, keys, pv>>

\* What apply_transaction does for request r while it holds the write lock.
Applied(r) ==
  apply_transaction(state, req[r].prog.hash, req[r].input_hash, req[r].target_version,
                    req[r].proof, req[r].effects, req[r].meta, keys)

\* ledger.rs apply_transaction 149-272: the write lock is taken, the version
\* checked, the effects applied to a clone of the root, the record built and
\* published, the lock dropped.  An error returns before anything is stored.
Apply(r) ==
  /\ req[r].pc = "apply"
  /\ \E out \in {Applied(r)} :
     /\ state' = out.state
     /\ req' = [req EXCEPT ![r] = IF out.result.ok
                                    THEN [pc |-> "commit", result |-> out.result,
                                          held |-> HeldByExecute(req[r].meta, req[r].proof)]
                                    ELSE Finished(out.result)]
  /\ UNCHANGED <<file, tmp, next_tx, keys, pv>>

\* ledger.rs commit 117-118: the state cloned under the read lock.
CommitSnapshot(r) ==
  /\ req[r].pc = "commit"
  /\ req' = [req EXCEPT ![r] = [pc |-> "write", result |-> req[r].result,
                                held |-> req[r].held, snapshot |-> Serialize(state)]]
  /\ UNCHANGED <<state, file, tmp, next_tx, keys, pv>>

\* ledger.rs commit 120-121: the temporary file written, or the write fails.
CommitWrite(r) ==
  /\ req[r].pc = "write"
  /\ \/ /\ tmp' = req[r].snapshot
        /\ req' = [req EXCEPT ![r] = [pc |-> "rename", result |-> req[r].result,
                                      held |-> req[r].held]]
     \/ /\ tmp' = tmp
        /\ req' = [req EXCEPT ![r] = Finished(Err("LedgerIo", "write"))]
  /\ UNCHANGED <<state, file, next_tx, keys, pv>>

\* ledger.rs commit 123-133: the temporary file opened and synced, then
\* renamed over the ledger file.  Opening fails when the temporary file is
\* not there; the rename may fail.
CommitRename(r) ==
  /\ req[r].pc = "rename"
  /\ \/ /\ tmp # Missing
        /\ file' = tmp
        /\ tmp' = Missing
        /\ req' = [req EXCEPT ![r] = Answered(req[r].held, req[r].result)]
     \/ /\ UNCHANGED <<file, tmp>>
        /\ req' = [req EXCEPT ![r] = Finished(Err("LedgerIo", "rename"))]
  /\ UNCHANGED <<state, next_tx, keys, pv>>

\* The handler's future is dropped while it waits in commit (the client
\* went away): at the await of the write (ledger.rs 121), where the write
\* handed to the blocking pool may still happen, or once the write is done
\* and before the future is polled again, so that the rename (128) is never
\* issued.  apply_transaction has no await before commit (274).
Cancel(r) ==
  /\ req[r].pc \in {"write", "rename"}
  /\ tmp' \in (IF req[r].pc = "write" THEN {tmp, req[r].snapshot} ELSE {tmp})
  /\ req' = [req EXCEPT ![r] = Idle]
  /\ UNCHANGED <<state, file, next_tx, keys, pv>>

\* The response is sent and the request is over.
Respond(r) ==
  /\ req[r].pc = "done"
  /\ req' = [req EXCEPT ![r] = Idle]
  /\ UNCHANGED <<state, file, tmp, next_tx, keys, pv>>

Next ==
  \E r \in Requests :
    \/ \E chip \in ChipCatalog : RegisterChip(r, chip)
    \/ \E program \in ProgramCatalog : RegisterProgram(r, program)
    \/ \E name \in ProgramNames, inputs \in InputCatalog,
          target_version \in TargetVersions, now \in Ticks :
         StartExecute(r, name, inputs, target_version, now)
    \/ BindContext(r)
    \/ Evaluate(r)
    \/ Apply(r)
    \/ CommitSnapshot(r)
    \/ CommitWrite(r)
    \/ CommitRename(r)
    \/ Cancel(r)
    \/ Respond(r)

Spec == Init /\ [][Next]_vars

\* ------------------------------------------------------------------------
\* Properties of the transaction protocol
\* ------------------------------------------------------------------------
\* Request r takes the step that runs apply_transaction.
ApplyStep(r) == req[r].pc = "apply" /\ req'[r] # req[r]

\* ... and the transaction commits in memory.
CommitStep(r) == req[r].pc = "apply" /\ req'[r].pc = "commit"

HasFail(effects) == \E i \in DOMAIN effects : effects[i].type = "fail"

\* The result of a request that came back with the given error.
Returned(r, kind, msg) ==
  req[r].pc = "done" /\ ~req[r].result.ok /\ req[r].result.kind = kind /\ req[r].result.msg = msg

\* The result a request holds is the record of a transaction.
HoldsRecord(r) ==
  req[r].pc \in {"commit", "write", "rename", "done"} /\ req[r].result.ok
    /\ "resulting_version" \in DOMAIN req[r].result.val

\* C1 as first stated: whenever the effect list holds a fail effect,
\* apply_transaction returns a validation error and leaves the ledger as it was.
C1_FailIsValidationError ==
  [][\A r \in Requests :
       (ApplyStep(r) /\ HasFail(req[r].effects))
         => /\ req'[r].pc = "done"
            /\ ~req'[r].result.ok
            /\ req'[r].result.kind = "Validation"
            /\ state' = state]_vars

\* C1, amended: whenever the effect list holds a fail effect, apply_transaction
\* returns an error and the ledger (version, root, history, registry) is
\* identical before and after; the error is a validation error unless an
\* earlier effect of the list was refused with a state error (a target path
\* with no segment, a root that is no object).
C1_FailLeavesLedgerUnchanged ==
  [][\A r \in Requests :
       (ApplyStep(r) /\ HasFail(req[r].effects))
         => /\ req'[r].pc = "done"
            /\ ~req'[r].result.ok
            /\ req'[r].result.kind \in {"Validation", "State"}
            /\ (req'[r].result.kind = "State" =>
                  \E i \in DOMAIN req[r].effects :
                    /\ req[r].effects[i].type # "fail"
                    /\ \A j \in 1..i : req[r].effects[j].type # "fail")
            /\ state' = state]_vars

\* A transaction came back with program_fail after effects that wrote.
C1_Witness ==
  \E r \in Requests : Returned(r, "Validation", "program_fail") /\ state.meta.version > 0

\* C2: the history is a hash chain indexed by version: the first record has
\* no previous_record_hash, every later one holds the record_hash of the
\* record before it, and record i was applied to version i.
C2_HashChain ==
  \A i \in DOMAIN state.history :
    /\ state.history[i].version_applied_to = i - 1
    /\ state.history[i].previous_record_hash
         = (IF i = 1 THEN None ELSE state.history[i - 1].record_hash)

C2_Witness == Len(state.history) >= 2

\* C3: meta.version equals the number of records in the history, whatever
\* transactions, rejections, registrations and failed persistence came before.
C3_VersionIsHistoryLength == state.meta.version = Len(state.history)

C3_Witness ==
  /\ state.meta.version >= 1
  /\ \E r \in Requests : req[r].pc = "done" /\ ~req[r].result.ok /\ req[r].result.kind = "LedgerIo"
  /\ \E r \in Requests : Returned(r, "Validation", "version_conflict")

\* C4: meta.version never decreases and changes by exactly one, only when
\* apply_transaction commits; the record of a commit from version v has
\* version_applied_to = v and resulting_version = v + 1 = the new version.
C4_VersionStepsByOne ==
  [][\/ state'.meta.version = state.meta.version
     \/ /\ state'.meta.version = state.meta.version + 1
        /\ \E r \in Requests :
             /\ CommitStep(r)
             /\ req'[r].result.val.version_applied_to = state.meta.version
             /\ req'[r].result.val.resulting_version = state'.meta.version]_vars

C4_Witness ==
  \E r \in Requests :
    HoldsRecord(r) /\ req[r].result.val.resulting_version = 2 /\ state.meta.version = 2

\* C5: a target_version other than the current version is refused with
\* version_conflict and nothing changes; with no target_version, or the
\* current one, the version check passes.
C5_VersionCheck ==
  [][\A r \in Requests :
       ApplyStep(r) =>
         IF ~IsNone(req[r].target_version) /\ req[r].target_version.v # state.meta.version
         THEN req'[r] = Finished(Err("Validation", "version_conflict")) /\ state' = state
         ELSE ~(req'[r].pc = "done" /\ req'[r].result.msg = "version_conflict")]_vars

C5_Witness ==
  /\ \E r \in Requests : Returned(r, "Validation", "version_conflict")
  /\ \E r \in Requests : HoldsRecord(r) /\ req[r].result.val.version_applied_to = 0

\* C6: the write lock is held until persistence has finished, so the
\* snapshot persisted for a transaction is the state that transaction
\* published: its version is the record's resulting_version.
C6_SnapshotIsPublishedState ==
  \A r \in Requests :
    (req[r].pc = "write" /\ HoldsRecord(r))
      => Load(req[r].snapshot).meta.version = req[r].result.val.resulting_version

\* C7: the context a committed transaction was evaluated over was read from
\* the entity tree at version_applied_to: binding the context again over the
\* root the transaction is applied to gives the proof's context_snapshot.
C7_ContextReadAtAppliedVersion ==
  [][\A r \in Requests :
       CommitStep(r) =>
         req[r].proof.context_snapshot
           = bind_context(req[r].prog, req[r].inputs, state.root, req[r].meta)]_vars

\* C8: the history is append-only: at every step the history before is a
\* prefix of the history after.
C8_HistoryAppendOnly ==
  [][/\ Len(state.history) <= Len(state'.history)
     /\ SubSeq(state'.history, 1, Len(state.history)) = state.history]_vars

C8_Witness == Len(state.history) = 2 /\ state.history[1].id # state.history[2].id


\* ------------------------------------------------------------------------
\* Proofs on their own: a proof is built by execute_chip_signed from a chip,
\* a context, an execution time and key material, may have one field
\* changed on the way, and is handed to verify_proof.
\* ------------------------------------------------------------------------
KeyT == <<"t">>

\* allow iff the timestamp t of the context is at least a second old.
ChipAge ==
  Chip(<<"o">>,
       <<Gate(<<"r">>, Compare(">=", Call("age", <<Path(<<KeyT>>, None)>>), Literal(JInt(1))))>>,
       Shorthand("ALL"))

\* A chip with no gate.
ChipEmpty == Chip(<<"z">>, <<>>, Shorthand("ANY"))

\* c.hash = compute_chip_hash(&c), as register_chip stores a chip.
Hashed(chip) == [chip EXCEPT !.hash = compute_chip_hash(chip)]

ProofChips == {Hashed(ChipGuard), Hashed(ChipAge), ChipEmpty}

\* The latest execution time, in ticks of half a second.
MaxTick == 5
ProofTimes == 0..MaxTick

ProofContexts ==
  {JObj(KeyA :> JInt(1) @@ KeyT :> JStr(FullText(3))),
   JObj(KeyA :> JInt(0) @@ KeyT :> JStr(FullText(2))),
   JObj(KeyA :> JFloat(1) @@ KeyN :> JInt(1))}

\* Signing key present or absent; verifying key absent, the public half of
\* the signing key, or a key configured on its own.
KeyConfigs ==
  {KeyMaterial(s, v) : s \in {None, Key("k1")}, v \in {None, Key("k1"), Key("k2")}}

ProofFields ==
  {"chip_hash", "evaluated_at", "context_snapshot", "gates", "failed_gates", "final_result",
   "proof_hash", "signature"}

\* A number written as a float: 1 becomes 1.0.
AsFloat(x) == IF IsNum(x) THEN JFloat(x.v) ELSE x
AsFloats(ctx) == JObj([k \in DOMAIN ctx.v |-> AsFloat(ctx.v[k])])

\* The values a field of a proof may be changed to.
Alternatives(field, proof) ==
  CASE field = "chip_hash" -> {EmptyHash, compute_chip_hash(ChipOther)}
    [] field = "evaluated_at" ->
         {now_rfc3339(ExecMeta(<<>>, t)) : t \in ProofTimes} \cup {<<"x">>}
    [] field = "context_snapshot" -> ProofContexts \cup {AsFloats(proof.context_snapshot)}
    [] field = "gates" ->
         {[proof.gates EXCEPT ![i].result = ~@] : i \in DOMAIN proof.gates}
           \cup {[proof.gates EXCEPT ![i].values.left = AsFloat(@)] :
                    i \in DOMAIN proof.gates}
           \cup {<<>>}
    [] field = "failed_gates" -> {<<>>, <<<<"g">>>>}
    [] field = "final_result" -> {0, 1}
    [] field = "proof_hash" -> {EmptyHash, jcs_hash(JNull)}
    [] field = "signature" ->
         {None, Signature("k1", proof.proof_hash), Signature("k2", proof.proof_hash),
          Signature("k1", EmptyHash)}

InitProof ==
  /\ state = FreshState
  /\ file = Missing
  /\ tmp = Missing
  /\ req = [r \in Requests |-> Idle]
  /\ next_tx = 0
  /\ keys = ServerKeys
  /\ \E chip \in ProofChips, ctx \in ProofContexts, t \in ProofTimes, k \in KeyConfigs :
       pv = [stage |-> "input", chip |-> chip, ctx |-> ctx,
             meta |-> ExecMeta(<<"x", "0">>, t), keys |-> k]

\* execute_chip_signed builds the proof.
Build ==
  /\ pv.stage = "input"
  /\ \E proof \in {execute_chip_signed(pv.chip, pv.ctx, pv.meta, pv.keys)} :
     pv' = [stage |-> "built", chip |-> pv.chip, keys |-> pv.keys, meta |-> pv.meta,
            original |-> proof, proof |-> proof, tampered |-> "none"]
  /\ UNCHANGED server

\* One field of the proof is changed to another value.
Tamper ==
  /\ pv.stage = "built"
  /\ pv.tampered = "none"
  /\ \E field \in ProofFields :
       \E v \in Alternatives(field, pv.proof) :
         /\ v # pv.proof[field]
         /\ pv' = [pv EXCEPT !.proof[field] = v, !.tampered = field]
  /\ UNCHANGED server

\* The changed proof is made self-consistent: proof_hash is computed again
\* over the changed content, as build_proof computes it, and the signature,
\* which was over the old hash, is left out.
Forge ==
  /\ pv.stage = "built"
  /\ pv.tampered \notin {"none", "forged", "proof_hash", "signature"}
  /\ pv' = [pv EXCEPT !.proof = [pv.proof EXCEPT !.proof_hash = ProofHash(pv.proof),
                                                 !.signature = None],
                      !.tampered = "forged"]
  /\ UNCHANGED server

\* verify_proof is called on the proof, with the keys that built it.
Verify ==
  /\ pv.stage = "built"
  /\ \E wall \in ProofTimes :
       pv' = [stage |-> "verified", chip |-> pv.chip, keys |-> pv.keys, meta |-> pv.meta,
              original |-> pv.original, proof |-> pv.proof, tampered |-> pv.tampered,
              wall |-> wall,
              valid |-> verify_proof(pv.proof, pv.chip, pv.keys, wall)]
  /\ UNCHANGED server

NextProof == Build \/ Tamper \/ Forge \/ Verify

SpecProof == InitProof /\ [][NextProof]_vars

\* The server's own signatures verify under its verifying key.
OwnSignaturesVerify(k) ==
  IsNone(k.signing) \/ IsNone(k.verifying) \/ k.verifying.id = k.signing.id

\* C9: a proof built by execute_chip_signed and handed unchanged to
\* verify_proof with the same chip and keys is accepted, for every chip,
\* context and execution time, sub-second instants included; stated here for
\* the key material whose verifying key is absent or matches the signing key.
C9_BuiltProofVerifies ==
  (pv.stage = "verified" /\ pv.tampered = "none" /\ OwnSignaturesVerify(pv.keys)) => pv.valid

\* The proof was valid before the change.
WasValid == verify_proof(pv.original, pv.chip, pv.keys, pv.wall)

Detectable ==
  \/ pv.tampered \in {"chip_hash", "evaluated_at", "failed_gates", "final_result", "proof_hash"}
  \/ /\ pv.tampered \in {"context_snapshot", "gates"}
     /\ CanonProof(pv.proof) # CanonProof(pv.original)
  \/ /\ pv.tampered = "signature"
     /\ ~IsNone(pv.keys.verifying)
     /\ ~IsNone(pv.original.signature)
     /\ ~IsNone(pv.proof.signature)

HashAndReplayPass ==
  /\ pv.proof.chip_hash = pv.chip.hash
  /\ ProofHash(pv.proof) = pv.proof.proof_hash
  /\ execute_chip_signed(pv.chip, pv.proof.context_snapshot,
                         ExecMeta(<<>>, ReplayTime(pv.proof.evaluated_at, pv.wall)),
                         NoKeys).final_result = pv.proof.final_result

\* C11: once the hash and replay checks pass, verify_proof looks at the
\* signature exactly when a verifying key is configured and the proof carries
\* a signature, and then accepts iff the signature is one made by that key
\* over proof_hash; a signature without a configured key and a configured
\* key without a signature are ignored and the proof verifies.
C11_SignatureCheckedWhenBothPresent ==
  (pv.stage = "verified" /\ HashAndReplayPass) =>
    pv.valid = (IF ~IsNone(pv.proof.signature) /\ ~IsNone(pv.keys.verifying)
                THEN pv.proof.signature = Signature(pv.keys.verifying.id, pv.proof.proof_hash)
                ELSE TRUE)

\* A proof that passes the hash and replay checks was rejected for its
\* signature, which another key made.
C11_Witness ==
  /\ pv.stage = "verified"
  /\ HashAndReplayPass
  /\ ~IsNone(pv.proof.signature)
  /\ ~IsNone(pv.keys.verifying)
  /\ pv.proof.signature.by # pv.keys.verifying.id
  /\ ~pv.valid

\* ------------------------------------------------------------------------
\* Chips on their own: a chip of up to MaxGates gates under each composition
\* is executed over a context, and its gate expressions are evaluated.
\* ------------------------------------------------------------------------
MaxGates == 3
MaxThreshold == 3

\* true; the text of now(), which is no boolean; a > 0, a compare over the
\* context; not (age(t) >= 1), a boolean that is not a compare.
GateExprs ==
  {Literal(JBool(TRUE)),
   Call("now", <<>>),
   Compare(">", Path(<<KeyA>>, None), Literal(JInt(0))),
   Logic("not", <<Compare(">=", Call("age", <<Path(<<KeyT>>, None)>>), Literal(JInt(1)))>>)}

\* The gates g1, g2, ... over a list of expressions.
GatesOf(exprs) == [i \in DOMAIN exprs |-> Gate(<<"g">> \o NatText(i), exprs[i])]

\* Weight vectors for n gates: one weight per gate (gate i weighs i), one too
\* many, one too few.
WeightVectors(n) ==
  {[i \in 1..n |-> i], [i \in 1..(n + 1) |-> 1]}
    \cup (IF n > 0 THEN {[i \in 1..(n - 1) |-> 1]} ELSE {})

Compositions(n) ==
  {Shorthand(sh) : sh \in {"ALL", "ANY", "MAJORITY", "WEIGHTED", "x"}}
    \cup {Full(kind, <<>>, 0) : kind \in {"ALL", "ANY", "MAJORITY"}}
    \cup {Full("WEIGHTED", w, th) : w \in WeightVectors(n), th \in 0..MaxThreshold}

ChipsOfSize(n) ==
  {Chip(<<"w">>, GatesOf(exprs), comp) : exprs \in [1..n -> GateExprs], comp \in Compositions(n)}

ChipContexts ==
  {JObj(KeyA :> JInt(1) @@ KeyT :> JStr(FullText(2))), JObj(KeyA :> JInt(0))}

TxIds == {<<"x", "0">>, <<"x", "1">>}
ChipTimes == {2, 5}

InitChip ==
  /\ state = FreshState
  /\ file = Missing
  /\ tmp = Missing
  /\ req = [r \in Requests |-> Idle]
  /\ next_tx = 0
  /\ keys = ServerKeys
  /\ \E n \in 0..MaxGates :
       \E chip \in ChipsOfSize(n), ctx \in ChipContexts, tx \in TxIds, t \in ChipTimes :
         pv = [stage |-> "chip", chip |-> chip, ctx |-> ctx, meta |-> ExecMeta(tx, t)]

\* execute_chip_signed builds the proof of the chip.
ExecuteChip ==
  /\ pv.stage = "chip"
  /\ pv' = [stage |-> "proof", chip |-> pv.chip, ctx |-> pv.ctx, meta |-> pv.meta,
            proof |-> execute_chip_signed(pv.chip, pv.ctx, pv.meta, NoKeys)]
  /\ UNCHANGED server

\* eval_expr evaluates the expression of one gate.
EvaluateExpr ==
  /\ pv.stage = "chip"
  /\ \E i \in DOMAIN pv.chip.gates :
       pv' = [stage |-> "value", expr |-> pv.chip.gates[i].expr, ctx |-> pv.ctx,
              meta |-> pv.meta,
              value |-> eval_expr(pv.chip.gates[i].expr, pv.ctx, pv.meta)]
  /\ UNCHANGED server

NextChip == ExecuteChip \/ EvaluateExpr

SpecChip == InitChip /\ [][NextChip]_vars

\* C12: evaluation does not depend on the transaction id: an expression
\* evaluated under every other tx_id at the same execution_time gives the
\* same value, and a chip executed under every other tx_id gives the same
\* gate results and the same final_result.
C12_TxIdNeverConsulted ==
  /\ pv.stage = "value" =>
       \A tx \in TxIds :
         eval_expr(pv.expr, pv.ctx, ExecMeta(tx, pv.meta.execution_time)) = pv.value
  /\ pv.stage = "proof" =>
       \A tx \in TxIds :
         LET other == execute_chip_signed(pv.chip, pv.ctx,
                                          ExecMeta(tx, pv.meta.execution_time), NoKeys)
         IN other.gates = pv.proof.gates /\ other.final_result = pv.proof.final_result

\* now() was evaluated under the second transaction id.
C12_Witness ==
  /\ pv.stage = "value"
  /\ pv.expr.type = "call"
  /\ pv.meta.tx_id = <<"x", "1">>
  /\ pv.value = JStr(FullText(4))

\* The gates of the chip whose expression evaluates to the boolean true.
TrueGates ==
  {i \in DOMAIN pv.chip.gates :
     LET x == eval_expr(pv.chip.gates[i].expr, pv.ctx, pv.meta) IN x.t = "bool" /\ x.v}

\* The kind of composition the chip names.
KindOfChip == CompositionDef(pv.chip.composition).kind

\* C13: with N gates of which K evaluate true, a chip with no gates
\* included, final_result is 1 under ALL iff K = N, under ANY iff K > 0,
\* under MAJORITY iff 2K > N.
C13_CompositionRules ==
  pv.stage = "proof" =>
    LET N == Len(pv.chip.gates)
        K == Cardinality(TrueGates)
    IN CASE KindOfChip = "ALL" -> (pv.proof.final_result = 1) <=> (K = N)
         [] KindOfChip = "ANY" -> (pv.proof.final_result = 1) <=> (K > 0)
         [] KindOfChip = "MAJORITY" -> (pv.proof.final_result = 1) <=> (2 * K > N)
         [] OTHER -> TRUE

\* The sum of the weights w of the gates in set S.
RECURSIVE WeightOf(_, _)
WeightOf(S, w) ==
  IF S = {} THEN 0 ELSE LET i == CHOOSE x \in S : TRUE IN w[i] + WeightOf(S \ {i}, w)

\* C14: under WEIGHTED, final_result is 1 iff the weight vector has one
\* weight per gate and the weights of the passing gates sum to strictly more
\* than the threshold; it is 0 whenever the lengths differ.
C14_WeightedStrictThreshold ==
  (pv.stage = "proof" /\ KindOfChip = "WEIGHTED") =>
    LET comp == CompositionDef(pv.chip.composition) IN
    (pv.proof.final_result = 1)
      <=> /\ Len(comp.weights) = Len(pv.chip.gates)
          /\ WeightOf(TrueGates, comp.weights) > comp.threshold

\* Passing gates whose weights sum to exactly the threshold gave 0.
C14_Witness ==
  /\ pv.stage = "proof"
  /\ pv.chip.composition.form = "full"
  /\ KindOfChip = "WEIGHTED"
  /\ Len(pv.chip.composition.weights) = Len(pv.chip.gates)
  /\ TrueGates # {}
  /\ WeightOf(TrueGates, pv.chip.composition.weights) = pv.chip.composition.threshold
  /\ pv.proof.final_result = 0

\* C15: a proof holds one gate result per gate of the chip, in gate order
\* and under the gate's id; a result is true iff the gate's expression
\* evaluates to the boolean true, and a gate that is no compare and whose
\* value is no boolean has the error gate_not_boolean; failed_gates is the
\* ids of the false results in gate order; final_result is 0 or 1.
C15_GateResults ==
  pv.stage = "proof" =>
    /\ Len(pv.proof.gates) = Len(pv.chip.gates)
    /\ \A i \in DOMAIN pv.chip.gates :
         /\ pv.proof.gates[i].id = pv.chip.gates[i].id
         /\ pv.proof.gates[i].result = (i \in TrueGates)
         /\ (pv.chip.gates[i].expr.type # "compare"
               /\ ~IsBoolV(eval_expr(pv.chip.gates[i].expr, pv.ctx, pv.meta)))
              => (~pv.proof.gates[i].result
                   /\ pv.proof.gates[i].error = SomeStr("gate_not_boolean"))
    /\ pv.proof.failed_gates
         = LET failed == SelectSeq(pv.proof.gates, LAMBDA g : ~g.result)
           IN [i \in DOMAIN failed |-> failed[i].id]
    /\ pv.proof.final_result \in {0, 1}

\* Three gates: one passed, one is no boolean, one is a boolean false.
C15_Witness ==
  /\ pv.stage = "proof"
  /\ Len(pv.proof.gates) = 3
  /\ pv.proof.gates[1].result
  /\ pv.proof.gates[2].error = SomeStr("gate_not_boolean")
  /\ ~pv.proof.gates[3].result
  /\ IsNone(pv.proof.gates[3].error)
  /\ pv.proof.failed_gates = <<pv.chip.gates[2].id, pv.chip.gates[3].id>>

\* ------------------------------------------------------------------------
\* Properties of execute and of the registry (specification Spec)
\* ------------------------------------------------------------------------
\* Request r is an execute whose proof denied: it takes the on_deny branch.
Denied(r) == req[r].pc = "apply" /\ req[r].proof.final_result # 1

\* apply_transaction would pass the version check and every effect of r.
EffectsSucceed(r) ==
  /\ ~VersionConflict(req[r].target_version, state.meta.version)
  /\ apply_effects(req[r].effects, state.root, <<>>, req[r].proof, req[r].meta).ok

\* Request r, an execute that committed a denied transaction, returns.
DeniedReturns(r) ==
  /\ req[r].pc \in {"commit", "write", "rename"}
  /\ req[r].held.handler = "execute"
  /\ ~req[r].held.allowed
  /\ req'[r].pc = "done"

\* The effects are those of the branch the proof selects, and a denied
\* transaction whose effects succeed commits a record and advances the
\* version by one.
DenyCommits ==
  \A r \in Requests :
    /\ (req[r].pc = "chip" /\ req'[r].pc = "apply")
         => req'[r].effects = (IF req'[r].proof.final_result = 1
                               THEN req[r].prog.on_allow ELSE req[r].prog.on_deny)
    /\ (ApplyStep(r) /\ Denied(r) /\ EffectsSucceed(r))
         => /\ CommitStep(r)
            /\ state'.meta.version = state.meta.version + 1
            /\ state'.history = Append(state.history, req'[r].result.val)
            /\ req'[r].held.proof = req[r].proof

\* The response of a denied transaction: allowed = false, the proof and the
\* record.
DeniedBody(r) ==
  /\ req'[r].result.ok
  /\ req'[r].body.allowed = FALSE
  /\ req'[r].body.proof = req[r].held.proof
  /\ req'[r].body.effect_record = req[r].result.val
  /\ req'[r].body.tx_id = req[r].result.val.id

\* C16 as first stated: execute applies on_allow iff final_result = 1 and
\* on_deny otherwise, and a denied transaction whose effects succeed commits
\* a record, advances the version by one and returns allowed = false with
\* the proof and the record.
C16_DenyCommitsAndReturns ==
  [][DenyCommits /\ \A r \in Requests : DeniedReturns(r) => DeniedBody(r)]_vars

\* C16, amended: as above, and the request returns allowed = false with the
\* proof and the record once the state has been persisted; when the write or
\* the rename of the ledger file fails it returns a ledger I/O error, the
\* record staying committed in memory.
C16_DenyCommitsAndReturnsOncePersisted ==
  [][/\ DenyCommits
     /\ \A r \in Requests :
          DeniedReturns(r) =>
            \/ DeniedBody(r)
            \/ /\ ~req'[r].result.ok
               /\ req'[r].result.kind = "LedgerIo"
               /\ state' = state
               /\ \E i \in DOMAIN state.history : state.history[i] = req[r].result.val]_vars

\* A denied transaction returned allowed = false after an allowed one: its
\* record takes the version to 2 and its emitted event holds the tx_id.
C16_Witness ==
  \E r \in Requests :
    /\ req[r].pc = "done"
    /\ req[r].result.ok
    /\ "allowed" \in DOMAIN req[r].body
    /\ ~req[r].body.allowed
    /\ req[r].body.proof.final_result = 0
    /\ req[r].body.effect_record.resulting_version = 2
    /\ req[r].body.effect_record.applied_effects
         = <<EffEmit(<<"d", ":">> \o req[r].body.tx_id, EmptyObj)>>

\* ------------------------------------------------------------------------
\* The ledger on its own: register_chip, register_program and
\* apply_transaction called one after the other on a ledger that starts
\* empty (the write lock makes the calls sequential).
\* ------------------------------------------------------------------------
MaxOps == 3

KeyAccount == <<"a", "c", "c", "o", "u", "n", "t">>
KeyBalance == <<"b">>
IdA1 == <<"a", "1">>
IdA2 == <<"a", "2">>

\* The context of the proofs: a names the account a1.
LedgerContext == JObj(KeyA :> JStr(IdA1))

\* Effect lists: create a1; create a1 with other data; create a2 twice;
\* set a key and create the account the context names; create a2; a set,
\* an append and an increment, and a remove, a delete, a decrement and an
\* emit, with targets and values that name the context; a delete and an
\* append of one target, then a set and an increment of another.
EffectLists ==
  {<<EffCreate(KeyAccount, Literal(JStr(IdA1)), JObj(KeyBalance :> JInt(10)))>>,
   <<EffCreate(KeyAccount, Literal(JStr(IdA1)), JObj(KeyBalance :> JInt(20)))>>,
   <<EffCreate(KeyAccount, Literal(JStr(IdA2)), JObj(KeyBalance :> JInt(10))),
     EffCreate(KeyAccount, Literal(JStr(IdA2)), JObj(KeyBalance :> JInt(20)))>>,
   <<EffSet(KeyN, Literal(JInt(1))),
     EffCreate(KeyAccount, Path(<<KeyA>>, None), JObj(KeyBalance :> JInt(30)))>>,
   <<EffCreate(KeyAccount, Literal(JStr(IdA2)), EmptyObj)>>,
   <<EffSet(<<"s", ".">> \o Braced(KeyA), Path(<<KeyA>>, None)),
     EffAppend(<<"l">>, Literal(JStr(Braced(KeyA)))),
     EffIncrement(KeyN, Literal(JInt(2)))>>,
   <<EffRemove(<<"l">>, Path(<<KeyA>>, None)),
     EffDelete(<<"s", ".">> \o Braced(KeyA)),
     EffDecrement(KeyN, Literal(JStr(<<"1">>))),
     EffEmit(<<"d", ":">> \o Braced(TokTxId), JObj(KeyA :> JStr(Braced(KeyA))))>>,
   <<EffDelete(<<"l">>), EffAppend(<<"l">>, Literal(JStr(<<"x">>))),
     EffSet(KeyN, Literal(JInt(5))), EffIncrement(KeyN, Literal(JInt(2)))>>}

\* The guard chip with the literal of its first gate written 0.0: another
\* chip with the same canonical text.
ChipGuardFloat == [ChipGuard EXCEPT !.gates[1].expr.right = Literal(JFloat(0))]

\* Chips as a caller sends them: two names, two gate sets under one name,
\* the guard chip again with a hash field of the caller's, and the guard
\* chip with 0.0 for 0.
SentChips ==
  {ChipGuard, ChipOther, ChipAge, [ChipGuard EXCEPT !.hash = jcs_hash(JNull)], ChipGuardFloat}

\* Programs as a caller sends them: the counting program, the same name
\* with no deny branch, the counting program with a hash field of the
\* caller's, and a program of another name.
ProgQuiet == [ProgCount EXCEPT !.on_deny = <<>>]
SentPrograms == {ProgCount, ProgQuiet, [ProgCount EXCEPT !.hash = jcs_hash(JNull)], ProgFail}

\* The program hashes execute may pass to apply_transaction: prog.hash of a
\* program get_program returned (api.rs 33-35); the empty hash stands for a
\* caller of the ledger that names no program.
ProgramHashes(st) ==
  IF DOMAIN st.registry.programs = {} THEN {EmptyHash}
  ELSE {compute_program_hash(st.registry.programs[n]) : n \in DOMAIN st.registry.programs}

\* Ledger::new with no file or with a file that does not parse.
InitLedger ==
  /\ file \in {Missing, Malformed}
  /\ state = Load(file)
  /\ tmp = Missing
  /\ req = [r \in Requests |-> Idle]
  /\ next_tx = 0
  /\ keys \in {ServerKeys, NoKeys}
  /\ pv = [stage |-> "ledger", ops |-> 0]

\* ledger.rs register_chip
CallRegisterChip ==
  /\ pv.stage = "ledger"
  /\ pv.ops < MaxOps
  /\ \E chip \in SentChips :
       \E out \in {register_chip(state, chip)} :
         /\ state' = out.state
         /\ pv' = [stage |-> "ledger", ops |-> pv.ops + 1, op |-> "register_chip",
                   before |-> state, chip |-> chip, result |-> out.result]
  /\ UNCHANGED <<file, tmp, req, next_tx, keys>>

\* ledger.rs register_program
CallRegisterProgram ==
  /\ pv.stage = "ledger"
  /\ pv.ops < MaxOps
  /\ \E program \in SentPrograms :
       \E out \in {register_program(state, program)} :
         /\ state' = out.state
         /\ pv' = [stage |-> "ledger", ops |-> pv.ops + 1, op |-> "register_program",
                   before |-> state, program |-> program, result |-> out.result]
  /\ UNCHANGED <<file, tmp, req, next_tx, keys>>

\* ledger.rs apply_transaction, up to the release of the write lock, with
\* the proof of a chip evaluated over LedgerContext.
CallApplyTransaction ==
  /\ pv.stage = "ledger"
  /\ pv.ops < MaxOps
  /\ \E effects \in EffectLists, program_hash \in ProgramHashes(state) :
       \E meta \in {ExecMeta(<<"x">> \o NatText(pv.ops), 0)} :
         \E proof \in {execute_chip_signed(ChipEmpty, LedgerContext, meta, keys)} :
           \E out \in {apply_transaction(state, program_hash, jcs_hash(LedgerContext), NoTarget,
                                         proof, effects, meta, keys)} :
             /\ state' = out.state
             /\ pv' = [stage |-> "ledger", ops |-> pv.ops + 1, op |-> "apply_transaction",
                       before |-> state, effects |-> effects, proof |-> proof,
                       meta |-> meta, result |-> out.result]
  /\ UNCHANGED <<file, tmp, req, next_tx, keys>>

NextLedger == CallRegisterChip \/ CallRegisterProgram \/ CallApplyTransaction

SpecLedger == InitLedger /\ [][NextLedger]_vars

\* The step is a call of apply_transaction.
TransactionStep == pv'.stage = "ledger" /\ pv'.ops = pv.ops + 1 /\ pv'.op = "apply_transaction"

\* Effect i of the call is a create whose evaluated id is present under
\* root[entity_type] in the working copy the effects before it left.
CreatesExisting(i) ==
  /\ pv'.effects[i].type = "create"
  /\ LET before == apply_effects(SubSeq(pv'.effects, 1, i - 1), state.root, <<>>,
                                 pv'.proof, pv'.meta)
         idv == eval_expr(pv'.effects[i].id, pv'.proof.context_snapshot, pv'.meta)
     IN /\ before.ok
        /\ IsStr(idv)
        /\ IsObj(before.val.root)
        /\ pv'.effects[i].entity_type \in DOMAIN before.val.root.v
        /\ IsObj(before.val.root.v[pv'.effects[i].entity_type])
        /\ idv.v \in DOMAIN before.val.root.v[pv'.effects[i].entity_type].v

\* C17: a create whose id is already present under root[entity_type], put
\* there by an earlier transaction or by an earlier effect of the same one,
\* is refused with the validation error entity_exists, and the transaction
\* leaves the ledger as it was; no step changes the data of an entity that
\* exists.
C17_CreateOfExistingRejected ==
  [][/\ (TransactionStep /\ \E i \in DOMAIN pv'.effects : CreatesExisting(i))
          => /\ pv'.result = Err("Validation", "entity_exists")
             /\ state' = state
     /\ \A id \in {IdA1, IdA2} :
          EntityExists(state.root, KeyAccount, id)
            => /\ EntityExists(state'.root, KeyAccount, id)
               /\ state'.root.v[KeyAccount].v[id] = state.root.v[KeyAccount].v[id]]_vars

\* After a1 was created with balance 10, a transaction that creates a1 with
\* balance 20 was refused; a1 still holds 10.
C17_Witness ==
  /\ pv.stage = "ledger"
  /\ pv.ops >= 2
  /\ pv.op = "apply_transaction"
  /\ pv.result = Err("Validation", "entity_exists")
  /\ pv.effects[1].data = JObj(KeyBalance :> JInt(20))
  /\ state.meta.version >= 1
  /\ state.root.v[KeyAccount].v[IdA1] = JObj(KeyBalance :> JInt(10))

\* The last call was register_chip.
Registered == pv.stage = "ledger" /\ pv.ops > 0 /\ pv.op = "register_chip"

\* A chip with its hash field blanked: its content.
Content(chip) == [chip EXCEPT !.hash = EmptyHash]

\* The hashes under which the content of the chip was registered before the call.
HashesOfSame(chip) ==
  {h \in DOMAIN pv.before.registry.chips : Content(pv.before.registry.chips[h]) = Content(chip)}

\* C18: register_chip of a chip whose content is already registered
\* succeeds, returns the hash of the first registration and leaves the
\* registry (chips, chip_names, programs) as it was; whatever hash field the
\* caller sends, the hash returned is that of the content.
C18_ReRegisterIsIdempotent ==
  Registered =>
    /\ pv.result.ok => pv.result.val = jcs_hash(CanonChip(Content(pv.chip)))
    /\ HashesOfSame(pv.chip) # {} =>
         /\ pv.result.ok
         /\ HashesOfSame(pv.chip) = {pv.result.val}
         /\ state.registry = pv.before.registry
         /\ state = pv.before

\* The guard chip was registered again, with a hash field of the caller's.
C18_Witness ==
  /\ Registered
  /\ pv.chip.hash # EmptyHash
  /\ pv.result.ok
  /\ HashesOfSame(pv.chip) = {pv.result.val}
  /\ pv.before.registry.chips[pv.result.val].hash # pv.chip.hash

\* The name of the chip was bound, before the call, to a hash other than
\* the canonical hash of its content.
BoundToOther ==
  /\ pv.chip.name \in DOMAIN pv.before.registry.chip_names
  /\ pv.before.registry.chip_names[pv.chip.name] # jcs_hash(CanonChip(Content(pv.chip)))

\* C19: register_chip with a registered name and content of another hash is
\* refused with the validation error chip_name_conflict; chips and
\* chip_names are unchanged, and the chip registered first is still found by
\* name and by hash.
C19_NameConflictRejected ==
  (Registered /\ BoundToOther) =>
    /\ pv.result = Err("Validation", "chip_name_conflict")
    /\ state.registry.chips = pv.before.registry.chips
    /\ state.registry.chip_names = pv.before.registry.chip_names
    /\ get_chip_by_name(state, pv.chip.name) = get_chip_by_name(pv.before, pv.chip.name)
    /\ ~IsNone(get_chip_by_name(state, pv.chip.name))
    /\ get_chip(state, pv.before.registry.chip_names[pv.chip.name])
         = get_chip_by_name(state, pv.chip.name)

\* The other chip named p was refused after the guard chip was registered.
C19_Witness ==
  /\ Registered
  /\ BoundToOther
  /\ pv.chip = ChipOther
  /\ ~pv.result.ok
  /\ get_chip_by_name(state, NameP).v.gates = ChipGuard.gates

\* C20: from an empty registry on, every name of chip_names is bound to a
\* hash that is a key of chips; the chip stored there has that name and a
\* hash field equal to its key; every chip of chips is indexed by its name;
\* and a call never changes the hash a name is bound to.
C20_NameIndexIsUnique ==
  /\ \A name \in DOMAIN state.registry.chip_names :
       /\ state.registry.chip_names[name] \in DOMAIN state.registry.chips
       /\ state.registry.chips[state.registry.chip_names[name]].name = name
  /\ \A h \in DOMAIN state.registry.chips :
       /\ state.registry.chips[h].hash = h
       /\ state.registry.chips[h].name \in DOMAIN state.registry.chip_names
       /\ state.registry.chip_names[state.registry.chips[h].name] = h
  /\ (pv.stage = "ledger" /\ pv.ops > 0) =>
       \A name \in DOMAIN pv.before.registry.chip_names :
         /\ name \in DOMAIN state.registry.chip_names
         /\ state.registry.chip_names[name] = pv.before.registry.chip_names[name]

\* Two names are registered, and a chip under one of them was refused.
C20_Witness ==
  /\ Cardinality(DOMAIN state.registry.chip_names) = 2
  /\ Cardinality(DOMAIN state.registry.chips) = 2
  /\ Registered
  /\ ~pv.result.ok

\* A call was made on the ledger; pv.before is the state it found.
Called == pv.stage = "ledger" /\ pv.ops > 0

\* Some program of the registry has this hash field.
ProgramAvailable(st, hash) ==
  \E n \in DOMAIN st.registry.programs : st.registry.programs[n].hash = hash

\* C21: chips and programs are write-once: a call leaves every chip that
\* was registered before it under the same hash with the same content, and
\* every program that was registered before it in the registry with the
\* same content; the program whose hash a history record holds is in the
\* registry.
C21_ArtifactsWriteOnce ==
  /\ Called =>
       /\ \A h \in DOMAIN pv.before.registry.chips :
            get_chip(state, h) = get_chip(pv.before, h)
       /\ \A n \in DOMAIN pv.before.registry.programs :
            \E m \in DOMAIN state.registry.programs :
              state.registry.programs[m] = pv.before.registry.programs[n]
  /\ \A i \in DOMAIN state.history :
       state.history[i].program_hash # EmptyHash
         => ProgramAvailable(state, state.history[i].program_hash)

\* The last call was register_program.
RegisteredProgram == Called /\ pv.op = "register_program"

\* C22: register_program succeeds; it returns the canonical hash of the
\* program with its hash field blanked, and get_program(name) then returns
\* the program sent, with that hash, whatever was registered under the name
\* before; the other names and the rest of the ledger are as before.  No
\* other call changes the programs, so get_program(name) returns the program
\* registered last under the name.
C22_LastProgramWins ==
  /\ RegisteredProgram =>
       /\ pv.result = Ok(jcs_hash(CanonProgram([pv.program EXCEPT !.hash = EmptyHash])))
       /\ get_program(state, pv.program.name)
            = Some([pv.program EXCEPT !.hash = pv.result.val])
       /\ \A n \in ProgramNames \ {pv.program.name} :
            get_program(state, n) = get_program(pv.before, n)
       /\ state = [pv.before EXCEPT !.registry.programs = state.registry.programs]
  /\ (Called /\ ~RegisteredProgram) =>
       state.registry.programs = pv.before.registry.programs

\* A program replaced the one its name had; the caller had set its hash field.
C22_Witness ==
  /\ RegisteredProgram
  /\ ~IsNone(get_program(pv.before, pv.program.name))
  /\ get_program(pv.before, pv.program.name).v.hash # pv.result.val
  /\ get_program(pv.before, pv.program.name).v.on_deny = <<>>
  /\ pv.program.hash # EmptyHash
  /\ get_program(state, pv.program.name).v.on_deny = ProgCount.on_deny

\* ------------------------------------------------------------------------
\* Persistence (ledger.rs commit) in the server
\* ------------------------------------------------------------------------
\* commit fails for request r: the write of the temporary file or the rename.
PersistFails(r) ==
  req[r].pc \in {"write", "rename"} /\ req'[r].pc = "done" /\ ~req'[r].result.ok

\* commit succeeds for request r: the temporary file is renamed over the
\* ledger file.
PersistSucceeds(r) == req[r].pc = "rename" /\ req'[r].pc = "done" /\ req'[r].result.ok

\* Record i of the history in memory is in the ledger file.
InFile(i) ==
  /\ file.kind = "state"
  /\ i \in DOMAIN Load(file).history
  /\ Load(file).history[i] = state.history[i]

\* The commit of record i is still under way in some request.
CommitPending(i) ==
  \E q \in Requests :
    req[q].pc \in {"commit", "write", "rename"} /\ req[q].result = Ok(state.history[i])

\* Record i was committed in memory and its commit returned an I/O error:
\* it is not in the file and no request is still persisting it.
PersistenceFailed(i) == ~InFile(i) /\ ~CommitPending(i)

\* A failed commit returns LedgerIo and rolls nothing back: the record the
\* request holds stays in the history, at its version.
FailureKeepsState ==
  \A r \in Requests :
    (PersistFails(r) /\ HoldsRecord(r)) =>
      /\ req'[r].result.kind = "LedgerIo"
      /\ state' = state
      /\ state.meta.version >= req[r].result.val.resulting_version
      /\ state.history[req[r].result.val.resulting_version] = req[r].result.val

\* A successful commit writes a file that holds every record whose own
\* commit failed.
SuccessIncludesFailed ==
  \A r \in Requests :
    PersistSucceeds(r) =>
      \A i \in DOMAIN state.history :
        PersistenceFailed(i) =>
          /\ file'.kind = "state"
          /\ i \in DOMAIN Load(file').history
          /\ Load(file').history[i] = state.history[i]

\* C23: when persistence fails after the commit in memory, apply_transaction
\* returns a LedgerIo error and the state in memory stays advanced (the
\* record appended, nothing rolled back); the next successful persistence
\* writes a state that includes that transaction.
C23_FailedPersistenceIsCaughtUp == [][FailureKeepsState /\ SuccessIncludesFailed]_vars

\* The future of request r is dropped.
CancelStep(r) == req[r].pc \in {"write", "rename"} /\ req'[r].pc = "idle"

\* The ledger file holds the record.
Persisted(f, record) ==
  /\ f.kind = "state"
  /\ record.resulting_version \in DOMAIN Load(f).history
  /\ Load(f).history[record.resulting_version] = record

\* C24: a request dropped after apply_transaction took the write lock and
\* its effects validated does not prevent the commit: the record is in the
\* history, the version is advanced, and the new state is in the ledger file.
C24_CancelCannotPreventCommit ==
  [][\A r \in Requests :
       (CancelStep(r) /\ HoldsRecord(r)) =>
         /\ state' = state
         /\ state.meta.version >= req[r].result.val.resulting_version
         /\ state.history[req[r].result.val.resulting_version] = req[r].result.val
         /\ Persisted(file', req[r].result.val)]_vars

\* The state Ledger::new reads from the file commit would write for st.
Reloaded(st) == Load(Serialize(st))

\* Every record of the history has the record_hash its content gives.
HashesRecompute(st) ==
  \A i \in DOMAIN st.history : RecordHash(st.history[i]) = st.history[i].record_hash

IsEmptyState(st) ==
  /\ st.meta.version = 0
  /\ st.registry = [chips |-> EmptyMap, chip_names |-> EmptyMap, programs |-> EmptyMap]
  /\ st.history = <<>>
  /\ st.root = EmptyObj

\* What the transaction of the last call gives on the same ledger with
\* the entity tree of a freshly created one.
OnFreshTree ==
  apply_transaction([pv.before EXCEPT !.root = EmptyObj], EmptyHash, jcs_hash(LedgerContext),
                    NoTarget, pv.proof, pv.effects, pv.meta, keys)

\* C26: the state loaded from a missing file and the state loaded from a
\* malformed file are empty (version 0, empty registry, empty history, the
\* empty object as entity tree), and a first transaction on either succeeds
\* or fails, and leaves the entity tree, as on a freshly created ledger.
C26_MalformedLoadsEmpty ==
  /\ IsEmptyState(Load(Missing))
  /\ IsEmptyState(Load(Malformed))
  /\ (Called /\ pv.op = "apply_transaction" /\ pv.before.meta.version = 0) =>
       /\ pv.result.ok = OnFreshTree.result.ok
       /\ state.root = OnFreshTree.state.root

\* ------------------------------------------------------------------------
\* The lock: one writer at a time stores the fields of the state one after
\* the other while it holds the write guard (ledger.rs 90-106, 149-272);
\* a reader takes the read guard, clones what it returns and drops the
\* guard in one expression (55-87, 117).
\* ------------------------------------------------------------------------
MaxWrites == 2

ReadOps == {"snapshot_root", "current_version", "get_chip_by_name", "list_chips", "commit"}

\* What a read operation returns of a state.
View(op, st) ==
  CASE op = "snapshot_root" -> st.root
    [] op = "current_version" -> st.meta.version
    [] op = "get_chip_by_name" -> get_chip_by_name(st, NameP)
    [] op = "list_chips" ->
         {<<h, st.registry.chips[h].name>> : h \in DOMAIN st.registry.chips}
    [] OTHER -> st

\* A reader that does not wait for the writer.
CanReadAlways(lock) == TRUE

\* self.state.read() returns once no writer holds the lock.
CanRead(lock) == lock # "write"

InitLock ==
  /\ state = FreshState
  /\ file = Missing
  /\ tmp = Missing
  /\ req = [r \in Requests |-> Idle]
  /\ next_tx = 0
  /\ keys = ServerKeys
  /\ pv = [stage |-> "lock", lock |-> "free", pc |-> "idle", pending |-> FreshState,
           writes |-> 0, published |-> FreshState, seen |-> [op |-> "none"]]

\* apply_transaction takes the write guard and works on a clone of the
\* root (149-267); an error returns and drops the guard.
BeginTransaction ==
  /\ pv.stage = "lock" /\ pv.lock = "free" /\ pv.writes < MaxWrites
  /\ \E effects \in EffectLists :
       \E meta \in {ExecMeta(<<"x">> \o NatText(pv.writes), 0)} :
         \E proof \in {execute_chip_signed(ChipEmpty, LedgerContext, meta, keys)} :
           \E out \in {apply_transaction(state, EmptyHash, jcs_hash(LedgerContext), NoTarget,
                                         proof, effects, meta, keys)} :
             pv' = IF out.result.ok
                   THEN [pv EXCEPT !.lock = "write", !.pc = "root", !.pending = out.state,
                                   !.writes = @ + 1]
                   ELSE [pv EXCEPT !.writes = @ + 1]
  /\ UNCHANGED server

\* st.root = root (269)
StoreRoot ==
  /\ pv.stage = "lock" /\ pv.pc = "root"
  /\ state' = [state EXCEPT !.root = pv.pending.root]
  /\ pv' = [pv EXCEPT !.pc = "version"]
  /\ UNCHANGED <<file, tmp, req, next_tx, keys>>

\* st.meta.version = new_version (270)
StoreVersion ==
  /\ pv.stage = "lock" /\ pv.pc = "version"
  /\ state' = [state EXCEPT !.meta.version = pv.pending.meta.version]
  /\ pv' = [pv EXCEPT !.pc = "history"]
  /\ UNCHANGED <<file, tmp, req, next_tx, keys>>

\* st.history.push(record.clone()); drop(st) (271-272)
PushRecord ==
  /\ pv.stage = "lock" /\ pv.pc = "history"
  /\ state' = [state EXCEPT !.history = pv.pending.history]
  /\ pv' = [pv EXCEPT !.pc = "idle", !.lock = "free", !.published = state']
  /\ UNCHANGED <<file, tmp, req, next_tx, keys>>

\* register_chip takes the write guard (92); a name conflict returns.
BeginRegisterChip ==
  /\ pv.stage = "lock" /\ pv.lock = "free" /\ pv.writes < MaxWrites
  /\ \E chip \in {ChipGuard, ChipOther} :
       \E out \in {register_chip(state, chip)} :
         pv' = IF out.result.ok
               THEN [pv EXCEPT !.lock = "write", !.pc = "names", !.pending = out.state,
                               !.writes = @ + 1]
               ELSE [pv EXCEPT !.writes = @ + 1]
  /\ UNCHANGED server

\* st.registry.chip_names.insert(..) (104)
StoreName ==
  /\ pv.stage = "lock" /\ pv.pc = "names"
  /\ state' = [state EXCEPT !.registry.chip_names = pv.pending.registry.chip_names]
  /\ pv' = [pv EXCEPT !.pc = "chips"]
  /\ UNCHANGED <<file, tmp, req, next_tx, keys>>

\* st.registry.chips.insert(..) and the guard dropped at the return (105-106)
StoreChip ==
  /\ pv.stage = "lock" /\ pv.pc = "chips"
  /\ state' = [state EXCEPT !.registry.chips = pv.pending.registry.chips]
  /\ pv' = [pv EXCEPT !.pc = "idle", !.lock = "free", !.published = state']
  /\ UNCHANGED <<file, tmp, req, next_tx, keys>>

\* A read operation: what it returns, and the state published last when
\* it ran.
Read ==
  /\ pv.stage = "lock"
  /\ CanRead(pv.lock)
  /\ \E op \in ReadOps :
       pv' = [pv EXCEPT !.seen = [op |-> op, value |-> View(op, state), at |-> pv.published]]
  /\ UNCHANGED server

NextLock ==
  \/ BeginTransaction \/ StoreRoot \/ StoreVersion \/ PushRecord
  \/ BeginRegisterChip \/ StoreName \/ StoreChip
  \/ Read

SpecLock == InitLock /\ [][NextLock]_vars

\* C27: what a read operation returns is the view of one published state:
\* never the root of a transaction whose record or version is not there
\* yet, never a name whose chip is not stored yet; a whole-state snapshot
\* has version = length of the history.
C27_ReadersSeePublishedStates ==
  (pv.stage = "lock" /\ pv.seen.op # "none") =>
    /\ pv.seen.value = View(pv.seen.op, pv.seen.at)
    /\ pv.seen.op = "commit" =>
         /\ pv.seen.value.meta.version = Len(pv.seen.value.history)
         /\ \A n \in DOMAIN pv.seen.value.registry.chip_names :
              pv.seen.value.registry.chip_names[n] \in DOMAIN pv.seen.value.registry.chips

\* A reader took the root before the writer that now holds the lock stored
\* its own: the state in memory is partially applied and no reader saw it.
C27_Witness ==
  /\ pv.stage = "lock"
  /\ pv.pc = "version"
  /\ pv.seen.op = "snapshot_root"
  /\ pv.seen.value # state.root
  /\ state.meta.version = pv.published.meta.version
  /\ state.root # pv.published.root

\* ------------------------------------------------------------------------
\* The inputs of a request, from the JSON text to the input_hash of the
\* record (api.rs 26, 86-90; engine.rs 74-81).  In the text an object is a
\* list of members in the order the client wrote them.
\* ------------------------------------------------------------------------
MaxPairs == 2

Members(ms) == [t |-> "members", v |-> ms]
Member(k, d) == [k |-> k, d |-> d]

\* serde_json::from_str into a Value: the members are inserted into the Map
\* one after the other.
RECURSIVE from_str(_)
RECURSIVE InsertMembers(_, _)
InsertMembers(obj, ms) ==
  IF ms = <<>> THEN obj
  ELSE InsertMembers(Insert(obj, Head(ms).k, from_str(Head(ms).d)), Tail(ms))
from_str(d) == IF d.t = "members" THEN InsertMembers(EmptyObj, d.v) ELSE d

\* engine.rs jcs_string: the canonical text, keys sorted, numbers in their
\* shortest form.
jcs_string(x) == JsonText(Canon(x))

\* A hash taken over the text as the client sent it.
input_hash_of_text(d) == jcs_hash(d)

\* Kernel::jcs_hash(&req.inputs) of the inputs the extractor parsed.
input_hash(d) == jcs_hash(Canon(from_str(d)))

\* Texts of inputs: scalars, and objects of up to MaxPairs members with
\* distinct keys, a member being a scalar or an object of two members.
InputKeys == {KeyA, KeyN, KeyT}
Scalars == {JInt(1), JStr(<<"b">>)}
InnerTexts ==
  Scalars \cup {Members(<<Member(KeyA, JInt(1)), Member(KeyN, JInt(2))>>),
                Members(<<Member(KeyN, JInt(2)), Member(KeyA, JInt(1))>>)}
MemberLists(n) ==
  {ms \in [1..n -> {Member(k, d) : k \in InputKeys, d \in InnerTexts}] :
     \A i, j \in 1..n : i # j => ms[i].k # ms[j].k}
InputTexts == {Members(ms) : ms \in UNION {MemberLists(n) : n \in 0..MaxPairs}}

InitCanon ==
  /\ state = FreshState
  /\ file = Missing
  /\ tmp = Missing
  /\ req = [r \in Requests |-> Idle]
  /\ next_tx = 0
  /\ keys = ServerKeys
  /\ \E d \in InputTexts : pv = [stage |-> "canon", pc |-> "sent", text |-> d]

\* The extractor AxumJson(req) parses the body (api.rs 26).
ParseRequest ==
  /\ pv.stage = "canon" /\ pv.pc = "sent"
  /\ pv' = [stage |-> "canon", pc |-> "parsed", text |-> pv.text, inputs |-> from_str(pv.text)]
  /\ UNCHANGED server

\* let input_hash = Kernel::jcs_hash(&req.inputs) (api.rs 86)
HashInputs ==
  /\ pv.stage = "canon" /\ pv.pc = "parsed"
  /\ pv' = [stage |-> "canon", pc |-> "hashed", text |-> pv.text, inputs |-> pv.inputs,
            canonical |-> jcs_string(pv.inputs), input_hash |-> input_hash(pv.text)]
  /\ UNCHANGED server

\* apply_transaction with that input_hash (api.rs 88-90): the record.
RecordInputs ==
  /\ pv.stage = "canon" /\ pv.pc = "hashed"
  /\ \E meta \in {ExecMeta(<<"x", "0">>, 0)} :
       \E proof \in {execute_chip_signed(ChipEmpty, pv.inputs, meta, keys)} :
         \E out \in {apply_transaction(state, EmptyHash, pv.input_hash, NoTarget, proof,
                                       <<EffEmit(<<"e">>, EmptyObj)>>, meta, keys)} :
           /\ state' = out.state
           /\ pv' = [pv EXCEPT !.pc = "recorded"]
  /\ UNCHANGED <<file, tmp, req, next_tx, keys>>

NextCanon == ParseRequest \/ HashInputs \/ RecordInputs

SpecCanon == InitCanon /\ [][NextCanon]_vars

\* A text with the order of the members forgotten, at every depth.
RECURSIVE Unordered(_)
Unordered(d) ==
  IF d.t = "members"
  THEN [t |-> "set", ms |-> {<<d.v[i].k, Unordered(d.v[i].d)>> : i \in DOMAIN d.v}]
  ELSE d

\* The texts that differ from d in the order of members only.
Reorderings(d) == {e \in InputTexts : Unordered(e) = Unordered(d)}

\* C28: the canonical text and the hash of the inputs do not depend on the
\* order of the keys: every text that differs from the one sent in key
\* order only parses to an equal value, has the same canonical text and the
\* same hash, and the record of the request carries that input_hash.
C28_HashIgnoresKeyOrder ==
  /\ (pv.stage = "canon" /\ pv.pc \in {"hashed", "recorded"}) =>
       \A e \in Reorderings(pv.text) :
         /\ from_str(e) = pv.inputs
         /\ jcs_string(from_str(e)) = pv.canonical
         /\ input_hash(e) = pv.input_hash
  /\ (pv.stage = "canon" /\ pv.pc = "recorded") =>
       \A e \in Reorderings(pv.text) : state.history[1].input_hash = input_hash(e)

\* The inputs {"n": {"n":2,"a":1}, "a": 1} were recorded; written in key
\* order they are another text, and the canonical text has the keys sorted.
C28_Witness ==
  /\ pv.stage = "canon"
  /\ pv.pc = "recorded"
  /\ pv.text = Members(<<Member(KeyN, Members(<<Member(KeyN, JInt(2)), Member(KeyA, JInt(1))>>)),
                         Member(KeyA, JInt(1))>>)
  /\ Cardinality(Reorderings(pv.text)) = 4
  /\ pv.canonical = JsonText(JObj(KeyA :> JInt(1) @@
                                  KeyN :> JObj(KeyA :> JInt(1) @@ KeyN :> JInt(2))))
  /\ Len(state.history) = 1

\* ------------------------------------------------------------------------
\* The trust barrier (trust_barrier.rs; api.rs barrier_process).
\* ------------------------------------------------------------------------
ContentTypes == {"Invoice", "Email", "Contract", "ApiResponse", "UserInput"}

\* The field names of the two schemas, and one name of neither.
FVendorId == <<"v", "e", "n", "d", "o", "r", "_", "i", "d">>
FAmount == <<"a", "m", "o", "u", "n", "t">>
FCurrency == <<"c", "u", "r", "r", "e", "n", "c", "y">>
FDate == <<"d", "a", "t", "e">>
FDescription == <<"d", "e", "s", "c", "r", "i", "p", "t", "i", "o", "n">>
FLineItems == <<"l", "i", "n", "e", "_", "i", "t", "e", "m", "s">>
FReference == <<"r", "e", "f", "e", "r", "e", "n", "c", "e">>
FFrom == <<"f", "r", "o", "m">>
FTo == <<"t", "o">>
FSubject == <<"s", "u", "b", "j", "e", "c", "t">>
FBody == <<"b", "o", "d", "y">>
FCc == <<"c", "c">>
FAttachments == <<"a", "t", "t", "a", "c", "h", "m", "e", "n", "t", "s">>
FTimestamp == <<"t", "i", "m", "e", "s", "t", "a", "m", "p">>
FExtra == <<"e", "x", "t", "r", "a">>

Field(field, kind) == [field |-> field, kind |-> kind]

\* The fields process reads for a content type, in the order of the code;
\* the other content types have none.
RequiredFields(content_type) ==
  CASE content_type = "Invoice" ->
         <<Field(FVendorId, "string"), Field(FAmount, "number"),
           Field(FCurrency, "string"), Field(FDate, "string")>>
    [] content_type = "Email" ->
         <<Field(FFrom, "string"), Field(FTo, "string"),
           Field(FSubject, "string"), Field(FBody, "string")>>
    [] OTHER -> <<>>

OptionalFields(content_type) ==
  CASE content_type = "Invoice" ->
         <<Field(FDescription, "string"), Field(FLineItems, "array"),
           Field(FReference, "string")>>
    [] content_type = "Email" ->
         <<Field(FCc, "array"), Field(FAttachments, "array"),
           Field(FTimestamp, "string")>>
    [] OTHER -> <<>>

expect_string(v, field) ==
  IF IsStr(v) THEN Ok(JStr(v.v)) ELSE Err("Validation", <<"type_mismatch", field, "string">>)

\* as_f64 of any number; json!(f64) writes it back as a float.
expect_number(v, field) ==
  IF IsNum(v) THEN Ok(JFloat(v.v)) ELSE Err("Validation", <<"type_mismatch", field, "number">>)

\* payload.get(field).ok_or_else(missing) for the required fields in order.
RECURSIVE GetRequired(_, _)
GetRequired(payload, required) ==
  IF required = <<>> THEN Ok(payload)
  ELSE IF IsNone(Get(payload, Head(required).field))
       THEN Err("Validation", <<"missing", Head(required).field>>)
       ELSE GetRequired(payload, Tail(required))

\* out.insert(field, json!(expect_..(v, field)?)) for the required fields.
RECURSIVE InsertRequired(_, _, _)
InsertRequired(out, payload, required) ==
  IF required = <<>> THEN Ok(out)
  ELSE With(IF Head(required).kind = "string"
            THEN expect_string(Get(payload, Head(required).field), Head(required).field)
            ELSE expect_number(Get(payload, Head(required).field), Head(required).field),
            LAMBDA e :
              IF ~e.ok THEN e
              ELSE InsertRequired(Insert(out, Head(required).field, e.val), payload,
                                  Tail(required)))

\* if let Some(d) = payload.get(field) { if d.is_string() / is_array() .. }
RECURSIVE InsertOptional(_, _, _)
InsertOptional(out, payload, optional) ==
  IF optional = <<>> THEN out
  ELSE With(Get(payload, Head(optional).field),
            LAMBDA d :
              InsertOptional(
                IF ~IsNone(d) /\ (IF Head(optional).kind = "string" THEN IsStr(d) ELSE IsArr(d))
                THEN Insert(out, Head(optional).field, d) ELSE out,
                payload, Tail(optional)))

\* The match on req.content_type with the Invoice and Email arms returning
\* the payload they checked for its required fields.
fields_of_unfiltered(content_type, payload) ==
  IF content_type \in {"Invoice", "Email"}
  THEN With(GetRequired(payload, RequiredFields(content_type)),
            LAMBDA got : IF ~got.ok THEN got ELSE Ok(payload))
  ELSE Ok(payload)

\* The match on req.content_type: Invoice and Email build a new object, the
\* other arm clones the payload.
fields_of(content_type, payload) ==
  IF content_type \in {"Invoice", "Email"}
  THEN With(GetRequired(payload, RequiredFields(content_type)),
            LAMBDA got :
              IF ~got.ok THEN got
              ELSE With(InsertRequired(EmptyObj, payload, RequiredFields(content_type)),
                        LAMBDA out :
                          IF ~out.ok THEN out
                          ELSE Ok(InsertOptional(out.val, payload,
                                                 OptionalFields(content_type)))))
  ELSE Ok(payload)

ValidatedData(content_type, fields, content_hash, signature) ==
  [content_type |-> content_type, fields |-> fields, content_hash |-> content_hash,
   signature |-> signature]

\* trust_barrier.rs process
process(breq) ==
  IF ~IsObj(breq.payload) THEN Err("Validation", <<"payload_must_be_object">>)
  ELSE With(fields_of(breq.content_type, breq.payload),
            LAMBDA fields :
              IF ~fields.ok THEN fields
              ELSE Ok(ValidatedData(breq.content_type, fields.val,
                                    jcs_hash(Canon(breq.payload)), breq.signature)))

\* Payloads: a complete invoice or email, or one with a required field
\* missing or of another type, with any of four more fields: two optional
\* ones of the right type, one of the wrong type, one of no schema.
InvoicePayload ==
  JObj(FVendorId :> JStr(<<"v">>) @@ FAmount :> JInt(1) @@ FCurrency :> JStr(<<"U">>)
       @@ FDate :> JStr(<<"d">>))
EmailPayload ==
  JObj(FFrom :> JStr(<<"a">>) @@ FTo :> JStr(<<"b">>) @@ FSubject :> JStr(<<"s">>)
       @@ FBody :> JStr(<<"t">>))
Damaged(base) ==
  {base} \cup {Remove(base, k) : k \in DOMAIN base.v}
         \cup {Insert(base, k, JNull) : k \in DOMAIN base.v}
MoreFields ==
  {<<FDescription, JStr(<<"x">>)>>, <<FCc, JArr(<<>>)>>,
   <<FLineItems, JStr(<<"x">>)>>, <<FExtra, JStr(<<"x">>)>>}
WithFields(base, more) ==
  JObj([k \in (DOMAIN base.v) \cup {m[1] : m \in more} |->
          IF k \in {m[1] : m \in more} THEN (CHOOSE m \in more : m[1] = k)[2] ELSE base.v[k]])
Payloads ==
  {WithFields(base, more) : base \in Damaged(InvoicePayload) \cup Damaged(EmailPayload),
                            more \in SUBSET MoreFields}
    \cup {JStr(<<"x">>), JArr(<<>>)}
BarrierReq(content_type, payload, signature) ==
  [content_type |-> content_type, payload |-> payload, signature |-> signature]

InitBarrier ==
  /\ state = FreshState
  /\ file = Missing
  /\ tmp = Missing
  /\ req = [r \in Requests |-> Idle]
  /\ next_tx = 0
  /\ keys = ServerKeys
  /\ \E content_type \in ContentTypes, payload \in Payloads :
       pv = [stage |-> "barrier", pc |-> "sent",
             breq |-> BarrierReq(content_type, payload, None)]

\* api.rs barrier_process: the response is the validated data or the error.
barrier_process ==
  /\ pv.stage = "barrier" /\ pv.pc = "sent"
  /\ pv' = [stage |-> "barrier", pc |-> "done", breq |-> pv.breq, result |-> process(pv.breq)]
  /\ UNCHANGED server

NextBarrier == barrier_process

SpecBarrier == InitBarrier /\ [][NextBarrier]_vars

\* The names a content type admits in the validated fields.
Listed(content_type) ==
  {RequiredFields(content_type)[i].field : i \in DOMAIN RequiredFields(content_type)}
    \cup {OptionalFields(content_type)[i].field : i \in DOMAIN OptionalFields(content_type)}

MissesRequired(breq) ==
  \E i \in DOMAIN RequiredFields(breq.content_type) :
    IsNone(Get(breq.payload, RequiredFields(breq.content_type)[i].field))

\* C29: for every content type and every object payload the barrier has
\* processed, an accepted payload yields validated fields whose names are
\* all among the required and the optional fields of the type, so a field
\* of the payload outside those lists is not in the output; a payload that
\* misses a required field is rejected with a validation error.
C29_OnlyListedFieldsPass ==
  (pv.stage = "barrier" /\ pv.pc = "done" /\ IsObj(pv.breq.payload)) =>
    /\ pv.result.ok => DOMAIN pv.result.val.fields.v \subseteq Listed(pv.breq.content_type)
    /\ MissesRequired(pv.breq) => (~pv.result.ok /\ pv.result.kind = "Validation")

\* C29, with the content types told apart: a payload that is not an object
\* is rejected for every content type.  For Invoice and Email an accepted
\* object payload yields exactly the required fields plus those optional
\* fields it has with the right type, each optional one unchanged, and an
\* object payload that misses a required field is rejected with a
\* validation error.  For Contract, ApiResponse and UserInput every object
\* payload is accepted and the validated fields are the payload, unknown
\* fields included.  The content hash is that of the whole payload.
C29_ListedTypesAreFiltered ==
  (pv.stage = "barrier" /\ pv.pc = "done") =>
    /\ ~IsObj(pv.breq.payload) => (~pv.result.ok /\ pv.result.kind = "Validation")
    /\ (IsObj(pv.breq.payload) /\ pv.breq.content_type \in {"Invoice", "Email"}) =>
         /\ MissesRequired(pv.breq) => (~pv.result.ok /\ pv.result.kind = "Validation")
         /\ pv.result.ok =>
              LET out == pv.result.val.fields.v
                  required == RequiredFields(pv.breq.content_type)
                  optional == OptionalFields(pv.breq.content_type)
              IN /\ DOMAIN out \subseteq Listed(pv.breq.content_type)
                 /\ \A i \in DOMAIN required : required[i].field \in DOMAIN out
                 /\ \A i \in DOMAIN optional :
                      optional[i].field \in DOMAIN out =>
                        out[optional[i].field] = pv.breq.payload.v[optional[i].field]
    /\ (IsObj(pv.breq.payload) /\ pv.breq.content_type \notin {"Invoice", "Email"}) =>
         /\ pv.result.ok
         /\ pv.result.val.fields = pv.breq.payload
    /\ pv.result.ok => pv.result.val.content_hash = jcs_hash(Canon(pv.breq.payload))

\* An invoice with the four required fields, a description, line_items
\* that are not an array and a field of no schema was accepted: the
\* description is kept, the other two are not in the validated fields.
C29_Witness ==
  /\ pv.stage = "barrier"
  /\ pv.pc = "done"
  /\ pv.breq.content_type = "Invoice"
  /\ pv.result.ok
  /\ {FExtra, FLineItems, FDescription} \subseteq DOMAIN pv.breq.payload.v
  /\ DOMAIN pv.result.val.fields.v = {FVendorId, FAmount, FCurrency, FDate, FDescription}
  /\ pv.result.val.fields.v[FAmount] = JFloat(1)

\* ------------------------------------------------------------------------
\* Replay of the history: the recorded effects applied again, each with the
\* statement of apply_transaction that changes the tree (ledger.rs 162-238),
\* the target, the id and the values taken from the record as they stand.
\* ------------------------------------------------------------------------
\* The value of a recorded expression: the literal; an expression that is
\* not a literal has no value without a context.
LiteralValue(expr) == IF expr.type = "literal" THEN expr.value ELSE JNull

reapply_effect(root, eff) ==
  CASE eff.type = "fail" -> Err("Validation", "program_fail")
    [] eff.type = "emit" -> Ok(root)
    [] eff.type = "create" ->
         With(IdStr(LiteralValue(eff.id)), LAMBDA id_str :
           IF EntityExists(root, eff.entity_type, id_str)
           THEN Err("Validation", "entity_exists")
           ELSE With(ensure_obj_path(root, eff.entity_type), LAMBDA ensured :
                  IF ~ensured.ok THEN ensured
                  ELSE Ok(Insert(ensured.val, eff.entity_type,
                                 Insert(Get(ensured.val, eff.entity_type), id_str, eff.data)))))
    [] eff.type = "delete" -> delete_path(root, eff.target)
    [] eff.type = "set" -> set_path(root, eff.target, LiteralValue(eff.value))
    [] eff.type = "increment" ->
         set_path(root, eff.target,
                  JFloat(NumberAt(root, eff.target) + NumOr0(LiteralValue(eff.amount))))
    [] eff.type = "decrement" ->
         set_path(root, eff.target,
                  JFloat(NumberAt(root, eff.target) - NumOr0(LiteralValue(eff.amount))))
    [] eff.type = "append" ->
         set_path(root, eff.target,
                  JArr(Append(ArrayAt(root, eff.target), LiteralValue(eff.value))))
    [] eff.type = "remove" ->
         set_path(root, eff.target,
                  JArr(Retain(ArrayAt(root, eff.target), LiteralValue(eff.value))))

RECURSIVE reapply_effects(_, _)
reapply_effects(root, effects) ==
  IF effects = <<>> THEN Ok(root)
  ELSE With(reapply_effect(root, Head(effects)), LAMBDA one :
         IF ~one.ok THEN one ELSE reapply_effects(one.val, Tail(effects)))

\* The records of the history in order, from the tree given.
RECURSIVE Replay(_, _)
Replay(root, history) ==
  IF history = <<>> THEN Ok(root)
  ELSE With(reapply_effects(root, Head(history).applied_effects), LAMBDA one :
         IF ~one.ok THEN one ELSE Replay(one.val, Tail(history)))

\* C30: in every reachable state of a ledger that started empty, applying
\* the applied_effects of history[1], history[2], ... in order to the empty
\* tree, with the recorded targets and literal values as they stand, meets
\* no error and yields the current root.
C30_ReplayYieldsRoot ==
  (pv.stage = "ledger" /\ file = Missing) =>
    /\ Replay(EmptyObj, state.history).ok
    /\ Replay(EmptyObj, state.history).val = state.root

\* Two transactions were recorded whose effects named the context in their
\* targets and values: the records hold the resolved target s.a1 and the
\* literal a1, the second transaction removed what the first stored, and
\* the decrement by the string "1" is recorded as one by 0.
C30_Witness ==
  /\ pv.stage = "ledger"
  /\ file = Missing
  /\ Len(state.history) = 2
  /\ state.history[1].applied_effects[1] = EffSet(<<"s", ".", "a", "1">>, Literal(JStr(IdA1)))
  /\ state.history[1].applied_effects[2] = EffAppend(<<"l">>, Literal(JStr(IdA1)))
  /\ state.history[2].applied_effects[1] = EffRemove(<<"l">>, Literal(JStr(IdA1)))
  /\ state.history[2].applied_effects[3] = EffDecrement(KeyN, Literal(JFloat(0)))
  /\ state.root = JObj(<<"l">> :> JArr(<<>>) @@ KeyN :> JFloat(2) @@ <<"s">> :> EmptyObj)

\* ------------------------------------------------------------------------
\* The working copy of the entity tree during a transaction.
\* ------------------------------------------------------------------------
\* The last call was an apply_transaction that succeeded.
Committed ==
  pv.stage = "ledger" /\ pv.ops > 0 /\ pv.op = "apply_transaction" /\ pv.result.ok

\* The working copy after the first i effects of the last transaction:
\* let mut root = st.root.clone() (ledger.rs 158), then one effect each.
RECURSIVE WorkingRoot(_)
WorkingRoot(i) ==
  IF i = 0 THEN pv.before.root
  ELSE apply_effect(pv.effects[i], WorkingRoot(i - 1), pv.proof, pv.meta).val.root

\* C31: the effects of a transaction are applied in the listed order to one
\* working copy: effect i is applied to the tree the effects 1..i-1 left
\* (it succeeds there and is recorded as it was resolved there), and the
\* root published on success is the tree after the last effect.
C31_EffectsFoldInOrder ==
  Committed =>
    /\ \A i \in DOMAIN pv.effects :
         /\ apply_effect(pv.effects[i], WorkingRoot(i - 1), pv.proof, pv.meta).ok
         /\ pv.result.val.applied_effects[i] =
              apply_effect(pv.effects[i], WorkingRoot(i - 1), pv.proof, pv.meta).val.applied
    /\ state.root = WorkingRoot(Len(pv.effects))

\* The list l held a1 and n held 2.0; the transaction delete l, append x
\* to l, set n = 5, increment n by 2 was committed: the append started
\* from the empty array and the increment added to the value set.
C31_Witness ==
  /\ Committed
  /\ pv.effects = <<EffDelete(<<"l">>), EffAppend(<<"l">>, Literal(JStr(<<"x">>))),
                    EffSet(KeyN, Literal(JInt(5))), EffIncrement(KeyN, Literal(JInt(2)))>>
  /\ Get(pv.before.root, <<"l">>) = JArr(<<JStr(IdA1)>>)
  /\ Get(pv.before.root, KeyN) = JFloat(2)
  /\ Get(WorkingRoot(1), <<"l">>) = None
  /\ Get(state.root, <<"l">>) = JArr(<<JStr(<<"x">>)>>)
  /\ Get(WorkingRoot(3), KeyN) = JInt(5)
  /\ Get(state.root, KeyN) = JFloat(7)

\* ------------------------------------------------------------------------
\* interpolate_str step by step (interp.rs 16-75): the replace calls, then
\* the token loop for the pair { } and for the pair {{ }}, one round of the
\* loop per step.
\* ------------------------------------------------------------------------
KeyB == <<"b">>

\* Templates: one token, two tokens in a text, a double-brace token, a token
\* with blanks, the tx_id token, a token of two parts, text without a close.
Templates ==
  {Braced(KeyA), <<"x">> \o Braced(KeyA) \o <<"y">> \o Braced(KeyB), Braced(Braced(KeyA)),
   <<"{", " ", "a", " ", "}">>, Braced(TokTxId), Braced(KeyInput \o <<".">> \o KeyB),
   <<"{", "a">>}

\* Contexts: a and b bound under input to a plain string, a number, or a
\* string that is itself a token naming a or b; b may be unbound.
TokenValues == {JStr(<<"v">>), JInt(1), JStr(Braced(KeyA)), JStr(Braced(KeyB))}
InterpContexts ==
  {JObj(KeyInput :> JObj(KeyA :> va @@ KeyB :> vb)) : va \in TokenValues, vb \in TokenValues}
    \cup {JObj(KeyInput :> JObj(KeyA :> va)) : va \in TokenValues}

InterpMeta == ExecMeta(<<"x">>, 0)

\* The pairs of the for loop, in order.
Open(pc) == IF pc = "single" THEN <<"{">> ELSE <<"{", "{">>
Close(pc) == IF pc = "single" THEN <<"}">> ELSE <<"}", "}">>

\* out.find(open), and rest.find(close) as a position in out; 0 for None.
StartOf(out, open) == Find(out, open)
EndOf(out, open, close) ==
  IF StartOf(out, open) = 0 THEN 0 ELSE FindFrom(out, close, StartOf(out, open) + Len(open))

\* One round of the loop: out.replace_range(start..(end + close.len()), ..)
\* with the text of the replacement, or with the token when there is none.
ReplaceRange(out, open, close, ctx, proof, meta) ==
  With(StartOf(out, open), LAMBDA start :
  With(EndOf(out, open, close), LAMBDA end :
  With(Trim(SubSeq(out, start + Len(open), end - 1)), LAMBDA token :
  With(TokenReplacement(token, ctx, proof, meta), LAMBDA rep :
    SubSeq(out, 1, start - 1)
      \o (IF IsNone(rep) THEN token ELSE IF IsStr(rep) THEN rep.v ELSE JsonText(rep))
      \o SubSeq(out, end + Len(close), Len(out))))))

InitInterp ==
  /\ state = FreshState
  /\ file = Missing
  /\ tmp = Missing
  /\ req = [r \in Requests |-> Idle]
  /\ next_tx = 0
  /\ keys = ServerKeys
  /\ \E template \in Templates, ctx \in InterpContexts :
       pv = [stage |-> "interp", pc |-> "special", template |-> template, ctx |-> ctx,
             out |-> template, rounds |-> {}]

\* The replace calls for {now}, {tx_id} and their double forms (19-25).
ReplaceSpecials ==
  /\ pv.stage = "interp" /\ pv.pc = "special"
  /\ pv' = [pv EXCEPT !.pc = "single", !.out = SpecialTokens(pv.out, None, InterpMeta)]
  /\ UNCHANGED server

\* A round of the loop that found an open and a close (36-71).  rounds
\* keeps the texts with which the rounds of the running loop began.
ScanRound ==
  /\ pv.stage = "interp" /\ pv.pc \in {"single", "double"}
  /\ EndOf(pv.out, Open(pv.pc), Close(pv.pc)) # 0
  /\ pv' = [pv EXCEPT !.out = ReplaceRange(pv.out, Open(pv.pc), Close(pv.pc),
                                           pv.ctx, None, InterpMeta),
                      !.rounds = @ \cup {pv.out}]
  /\ UNCHANGED server

\* A round that found none: break (38, 43), to the next pair or to the end.
ScanBreak ==
  /\ pv.stage = "interp" /\ pv.pc \in {"single", "double"}
  /\ EndOf(pv.out, Open(pv.pc), Close(pv.pc)) = 0
  /\ pv' = [pv EXCEPT !.pc = IF pv.pc = "single" THEN "double" ELSE "returned",
                      !.rounds = {}]
  /\ UNCHANGED server

NextInterp == ReplaceSpecials \/ ScanRound \/ ScanBreak

SpecInterp == InitInterp /\ [][NextInterp]_vars

\* C32: every call of interpolate_str returns, whatever the template and
\* the context, also when the value put in for a token holds brace tokens.
\* A round of the loop is a function of the text alone, so a loop returns
\* iff no round leaves a text with which a round of that loop began: from
\* such a text the same rounds follow again, without end.
C32_InterpolationTerminates ==
  (pv.stage = "interp" /\ pv.pc \in {"single", "double"}) => pv.out \notin pv.rounds

\* ------------------------------------------------------------------------
\* Context binding, one definition per step (api.rs execute 43-67).
\* ------------------------------------------------------------------------
KeyK == <<"k">>
KeyM == <<"m">>
PathCToken == <<"c", ".">> \o Braced(KeyK)

\* Definitions: k from the input field k; n from the ledger at c.{k}; m
\* computed from the path k; k computed as the literal z; a definition
\* named input.
BindDefs ==
  {ContextDef(KeyK, "input", KeyK, None),
   ContextDef(KeyN, "ledger", PathCToken, None),
   ContextDef(KeyM, "computed", <<>>, Some(Path(<<KeyK>>, None))),
   ContextDef(KeyK, "computed", <<>>, Some(Literal(JStr(<<"z">>)))),
   ContextDef(KeyInput, "input", KeyK, None)}

MaxDefs == 3

\* Lists of up to MaxDefs different definitions.
BindLists ==
  UNION {{defs \in [1..n -> BindDefs] : \A i, j \in 1..n : i # j => defs[i] # defs[j]} :
           n \in 0..MaxDefs}

BindInputs == {JObj(KeyK :> JStr(<<"x">>)), EmptyObj}

\* The ledger holds c.x, c.z and c.k.
BindRoot == JObj(<<"c">> :> JObj(<<"x">> :> JInt(1) @@ <<"z">> :> JInt(2) @@ KeyK :> JInt(3)))

BindMeta == ExecMeta(<<"x">>, 0)

InitBind ==
  /\ state = [FreshState EXCEPT !.root = BindRoot]
  /\ file = Missing
  /\ tmp = Missing
  /\ req = [r \in Requests |-> Idle]
  /\ next_tx = 0
  /\ keys = ServerKeys
  /\ \E defs \in BindLists, inputs \in BindInputs :
       pv = [stage |-> "bind", pc |-> "start", defs |-> defs, inputs |-> inputs, i |-> 0]

\* let mut ctx = Map::new(); ctx.insert("input", req.inputs.clone()) (43-44)
InsertInput ==
  /\ pv.stage = "bind" /\ pv.pc = "start"
  /\ pv' = [stage |-> "bind", pc |-> "loop", defs |-> pv.defs, inputs |-> pv.inputs,
            i |-> 0, ctx |-> JObj(KeyInput :> pv.inputs), prev |-> EmptyObj]
  /\ UNCHANGED server

\* One pass of for c in &prog.context (45-66).
BindDef ==
  /\ pv.stage = "bind" /\ pv.pc = "loop"
  /\ pv.i < Len(pv.defs)
  /\ pv' = [pv EXCEPT !.i = pv.i + 1, !.prev = pv.ctx,
                      !.ctx = bind_one(pv.defs[pv.i + 1], pv.ctx, pv.inputs, state.root,
                                        BindMeta)]
  /\ UNCHANGED server

\* let context = Value::Object(ctx) (67)
BindDone ==
  /\ pv.stage = "bind" /\ pv.pc = "loop"
  /\ pv.i = Len(pv.defs)
  /\ pv' = [pv EXCEPT !.pc = "done"]
  /\ UNCHANGED server

NextBind == InsertInput \/ BindDef \/ BindDone

SpecBind == InitBind /\ [][NextBind]_vars

\* The definition bound last, and whether it refers to the name k.
Bound == pv.stage = "bind" /\ pv.pc \in {"loop", "done"} /\ pv.i > 0
RefersToK(c) ==
  \/ c.source = "ledger" /\ Find(c.path, Braced(KeyK)) # 0
  \/ c.source = "computed" /\ c.expression = Some(Path(<<KeyK>>, None))
DefinedBefore(name, i) == \E j \in 1..(i - 1) : pv.defs[j].name = name
DefinedAfter(name, i) == \E j \in (i + 1)..Len(pv.defs) : pv.defs[j].name = name

\* What the definition bound last leaves in the context when its reference
\* to k stands for the text given (ledger) or the value given (computed).
BoundWith(c, text, val) ==
  IF c.source = "ledger"
  THEN (IF IsNone(resolve_path(state.root, <<<<"c">>, text>>)) THEN pv.prev
        ELSE Insert(pv.prev, c.name, resolve_path(state.root, <<<<"c">>, text>>)))
  ELSE Insert(pv.prev, c.name, val)

Subtrees ==
  <<JInt(1), JArr(<<JInt(1)>>), EmptyObj, JObj(KeyB :> JInt(1)),
    JObj(KeyA :> JObj(KeyB :> JInt(2)) @@ KeyB :> JInt(1))>>
Tree(ia, ib) ==
  JObj([k \in {x \in {KeyA, KeyB} : IF x = KeyA THEN ia > 0 ELSE ib > 0} |->
          IF k = KeyA THEN Subtrees[ia] ELSE Subtrees[ib]])

\* Targets: one to three segments, one with an empty segment, two with none.
SetTargets ==
  {<<"a">>, <<"a", ".", "b">>, <<"a", ".", "b", ".", "a">>, <<"b", ".", "a">>,
   <<"a", ".", ".", "b">>, <<".">>, <<>>}

SetValues == {JInt(7), JObj(KeyA :> JInt(1))}

InitPath ==
  /\ \E ia, ib \in 0..Len(Subtrees) : state = [FreshState EXCEPT !.root = Tree(ia, ib)]
  /\ file = Missing
  /\ tmp = Missing
  /\ req = [r \in Requests |-> Idle]
  /\ next_tx = 0
  /\ keys = ServerKeys
  /\ \E target \in SetTargets, value \in SetValues :
       pv = [stage |-> "path", pc |-> "start", target |-> target, value |-> value]

\* A transaction whose one effect is set target = value.
SetPath ==
  /\ pv.stage = "path" /\ pv.pc = "start"
  /\ \E meta \in {ExecMeta(<<"x", "0">>, 0)} :
       \E proof \in {execute_chip_signed(ChipEmpty, EmptyObj, meta, keys)} :
         \E out \in {apply_transaction(state, EmptyHash, EmptyHash, NoTarget, proof,
                                       <<EffSet(pv.target, Literal(pv.value))>>, meta, keys)} :
           /\ state' = out.state
           /\ pv' = [stage |-> "path", pc |-> "set", target |-> pv.target, value |-> pv.value,
                     before |-> state.root, result |-> out.result]
  /\ UNCHANGED <<file, tmp, req, next_tx, keys>>

\* A read of the path in the committed root.
ReadPath ==
  /\ pv.stage = "path" /\ pv.pc = "set"
  /\ pv' = [stage |-> "path", pc |-> "read", target |-> pv.target, value |-> pv.value,
            before |-> pv.before, result |-> pv.result,
            read |-> get_path(state.root, pv.target)]
  /\ UNCHANGED server

NextPath == SetPath \/ ReadPath

SpecPath == InitPath /\ [][NextPath]_vars

\* Sequences of one to three keys, and the ones that leave the path of the
\* target: they differ from it at a segment both have.
KeyPaths == UNION {[1..n -> {KeyA, KeyB}] : n \in 1..3}
OffPath(q, parts) ==
  \E j \in 1..Len(q) : j <= Len(parts) /\ q[j] # parts[j]

\* C34: a set effect on p1.p2...pn that is committed leaves an object at
\* every intermediate segment, the value at the leaf, and every key that
\* is not on the path as it was; a read of the same path in the committed
\* root then returns the value written.
C34_SetWritesLeafOnly ==
  /\ (pv.stage = "path" /\ pv.pc \in {"set", "read"} /\ pv.result.ok) =>
       LET parts == split_path(pv.target)
       IN /\ parts # <<>>
          /\ state.meta.version = 1
          /\ \A i \in 1..(Len(parts) - 1) : IsObj(resolve_path(state.root, SubSeq(parts, 1, i)))
          /\ resolve_path(state.root, parts) = pv.value
          /\ \A q \in KeyPaths :
               OffPath(q, parts) => resolve_path(state.root, q) = resolve_path(pv.before, q)
  /\ (pv.stage = "path" /\ pv.pc \in {"set", "read"} /\ ~pv.result.ok) =>
       /\ split_path(pv.target) = <<>>
       /\ state.root = pv.before
  /\ (pv.stage = "path" /\ pv.pc = "read" /\ pv.result.ok) => pv.read = pv.value

\* set a.b.a = 7 on a tree where a.b was the number 2 and a and the root
\* had the key b besides: a.b is now an object holding a = 7, the two
\* other keys are as they were, and the read returned 7.
C34_Witness ==
  /\ pv.stage = "path"
  /\ pv.pc = "read"
  /\ pv.target = <<"a", ".", "b", ".", "a">>
  /\ pv.before = JObj(KeyA :> JObj(KeyA :> JObj(KeyB :> JInt(2)) @@ KeyB :> JInt(1))
                      @@ KeyB :> JArr(<<JInt(1)>>))
  /\ state.root = JObj(KeyA :> JObj(KeyA :> JObj(KeyB :> JInt(2))
                                    @@ KeyB :> JObj(KeyA :> JInt(7)))
                       @@ KeyB :> JArr(<<JInt(1)>>))
  /\ pv.read = JInt(7)

\* ------------------------------------------------------------------------
\* The record_hash of the records of the history (ledger.rs 245-267).
\* ------------------------------------------------------------------------
\* The canonical hash of a record with record_hash empty and
\* record_signature absent.
BlankedHash(r) ==
  jcs_hash(CanonRecord([r EXCEPT !.record_hash = EmptyHash, !.record_signature = None]))

\* A hash of something else.
OtherHash == jcs_hash([other |-> TRUE])

\* The record the last transaction would have left under other keys, the
\* proof built under those keys as well.
RecordUnder(kc) ==
  BuildRecord(pv.before, pv.result.val.program_hash, pv.result.val.input_hash,
              execute_chip_signed(ChipEmpty, LedgerContext, pv.meta, kc),
              pv.result.val.applied_effects, pv.meta, kc)

\* C35: every record of the history has as record_hash the canonical hash
\* of the record with record_hash empty and record_signature absent; a
\* record that differs in id, in a version, in the timestamp, in
\* program_hash, input_hash or proof_hash, in the applied effects or in
\* previous_record_hash has another hash; and the record_hash of a
\* transaction is the same under every key configuration.
C35_RecordHashBindsContent ==
  /\ pv.stage = "ledger" =>
       \A i \in DOMAIN state.history :
         LET r == state.history[i]
         IN /\ r.record_hash = BlankedHash(r)
            /\ BlankedHash([r EXCEPT !.id = <<"y">>]) # r.record_hash
            /\ BlankedHash([r EXCEPT !.version_applied_to = @ + 1]) # r.record_hash
            /\ BlankedHash([r EXCEPT !.resulting_version = @ + 1]) # r.record_hash
            /\ BlankedHash([r EXCEPT !.timestamp = <<"T", "9", "Z">>]) # r.record_hash
            /\ BlankedHash([r EXCEPT !.program_hash = OtherHash]) # r.record_hash
            /\ BlankedHash([r EXCEPT !.input_hash = OtherHash]) # r.record_hash
            /\ BlankedHash([r EXCEPT !.proof_hash = OtherHash]) # r.record_hash
            /\ BlankedHash([r EXCEPT !.applied_effects = @ \o <<EffDelete(<<"l">>)>>])
                 # r.record_hash
            /\ BlankedHash([r EXCEPT !.previous_record_hash = OtherHash])
                 # r.record_hash
  /\ Committed =>
       \A kc \in KeyConfigs : RecordUnder(kc).record_hash = pv.result.val.record_hash

\* Two records are in the history of a ledger that signs: the second is
\* signed, its hash is that of its content without the signature, and it
\* names the hash of the first.
C35_Witness ==
  /\ Committed
  /\ Len(state.history) = 2
  /\ keys = ServerKeys
  /\ state.history[2].record_signature = Signature("k1", state.history[2].record_hash)
  /\ state.history[2].previous_record_hash = state.history[1].record_hash
  /\ state.history[2].record_hash = BlankedHash(state.history[2])
  /\ RecordUnder(NoKeys).record_signature = None
  /\ state.history[2].applied_effects # <<>>

\* ------------------------------------------------------------------------
\* verify_proof on proofs that are self-consistent (engine.rs 383-408).
\* ------------------------------------------------------------------------
\* C36: verify_proof is a function of the proof, the chip and the keys:
\* called at any other wall-clock time on the arguments of a call it
\* returns what that call returned, also for a proof whose evaluated_at
\* does not parse.
C36_VerifyIsDeterministic ==
  pv.stage = "verified" =>
    \A wall \in ProofTimes : verify_proof(pv.proof, pv.chip, pv.keys, wall) = pv.valid

\* The re-execution verify_proof performs.
Replayed ==
  execute_chip_signed(pv.chip, pv.proof.context_snapshot,
                      ExecMeta(<<"v", "e", "r", "i", "f", "y">>,
                               ReplayTime(pv.proof.evaluated_at, pv.wall)),
                      NoKeys)

\* The id and the result of each gate.
GateResults(gates) == [i \in DOMAIN gates |-> <<gates[i].id, gates[i].result>>]

\* C37: a proof that verify_proof accepts records the gate results and the
\* failed gates that the re-execution of the chip over its context
\* snapshot at its evaluated_at gives; a self-consistent proof that records
\* others is rejected, with or without a signature check.
C37_AcceptedProofMatchesReplay ==
  (pv.stage = "verified" /\ pv.valid) =>
    /\ GateResults(pv.proof.gates) = GateResults(Replayed.gates)
    /\ pv.proof.failed_gates = Replayed.failed_gates

\* ------------------------------------------------------------------------
\* Concurrent persistence (ledger.rs commit 116-134, called by the register
\* and execute handlers after the write lock is released).
\* ------------------------------------------------------------------------
\* st is a state the ledger in memory may have passed through: its history
\* is the first records of the history in memory, and its version counts them.
EarlierState(st) ==
  /\ st.meta.version <= state.meta.version
  /\ Len(st.history) <= Len(state.history)
  /\ \A i \in DOMAIN st.history : st.history[i] = state.history[i]

\* The ledger file is whole: what it holds reads back and writes again as
\* itself, and is a state of the ledger in memory.
FileIsWholeState ==
  file.kind = "state" => (Serialize(Load(file)) = file /\ EarlierState(Load(file)))

\* Request r wrote the temporary file and is about to sync and rename it.
AboutToRename(r) == req[r].pc = "rename"

\* The temporary file request r wrote is still there for it to rename.
OwnTmpInPlace(r) == AboutToRename(r) => tmp # Missing

\* C38: under any interleaving of register and execute requests the ledger
\* file holds a complete serialization of one state the ledger in memory
\* passed through, and no commit fails because another request is
\* persisting: the temporary file a request wrote is there when it renames.
C38_ConcurrentPersistsDoNotInterfere ==
  FileIsWholeState /\ \A r \in Requests : OwnTmpInPlace(r)

\* The version the ledger file holds.
FileVersion(f) == Load(f).meta.version

\* A successful persist leaves in the file a version that is not lower
\* than the one it replaced.
VersionNotLowered ==
  \A r \in Requests :
    (PersistSucceeds(r) /\ file.kind = "state") => FileVersion(file') >= FileVersion(file)

\* Request r finished with a successful persist and is not answered yet.
PersistedOk(r) == req[r].pc = "done" /\ req[r].result.ok /\ "body" \in DOMAIN req[r]

\* Every request the server received has finished with a successful persist.
AllPersisted ==
  next_tx > 0 /\ Cardinality({r \in Requests : PersistedOk(r)}) = next_tx

\* C39: the version in the ledger file never decreases across successful
\* persists, and once every request in flight has finished with a
\* successful persist the file holds the state in memory.
C39_PersistedStateCatchesUp ==
  [][VersionNotLowered]_vars /\ [](AllPersisted => file = Serialize(state))
=========================================================================
